---- MODULE Spec2Model ----
(***************************************************************************)
(* Reference-counted entity / intent handles of the entity_handle crate:   *)
(* EntityServer (spawn, to_managed), EntityAssetServer (get_asset), the    *)
(* Arc-held tokens behind every EntityHandle, the drop channels, and the   *)
(* reconciler EntityHandler::execute, over a command-buffered ECS world.   *)
(***************************************************************************)
EXTENDS Integers, Sequences, FiniteSets, Bags, TLC

\* ---------------------------------------------------------------- bounds
MaxEntities == 2
MaxTokens == 4
MaxHandles == 2

\* ------------------------------------------------------------- vocabulary
Intents == {"IntentA", "IntentB"}
Ids == {"k1", "k2"}
NoId == "none"
IdMarker == "IdMarker"
TestComp == "TestComp"
Existing == "Existing"
EntityIds == 1..MaxEntities

VARIABLES
    world,            \* substrate: alive entity -> set of attached components
    commands,         \* deferred-mutation queue (Commands), applied by Flush
    next_entity,      \* next entity identifier the substrate hands out
    intent_registry,  \* IntentComponentsRegistry: intent type -> ComponentId
    registry,         \* EntityRegistry<Id>: identity key -> entity
    entity_handles,   \* EntityHandler.entity_handles: entity -> weak token
    intent_handles,   \* EntityHandler.intent_handles: (entity, comp) -> weak token
    drop_entity_q,    \* channel drop_entity_tx -> drop_entity_rx
    drop_intent_q,    \* channel drop_intent_tx -> drop_intent_rx
    handles,          \* bag of EntityHandle values held by the application
    next_token,       \* next Arc allocation
    pc,               \* position of EntityHandler::execute in the cycle
    snap,             \* what execute found when the running cycle began
    registration,     \* channel AsyncService.registration -> AsyncServiceRx
    ack,              \* per exec_sync call: its bounded(1) channel tx -> rx
    markers,          \* type pairs whose BridgeMarker<I, O> resource exists
    added_markers,    \* those added since execute_processors last ran
    installed,        \* per type pair: the bridge whose halves are in the world
    processors,       \* Processors: try_exec_processor::<I, O>, in push order
    req,              \* per bridge: channel SystemBridgeAsync.req -> Sync.req
    rsp,              \* per bridge: channel SystemBridgeSync.rsp -> Async.rsp
    tasks,            \* the async callers of exec_sync
    sync_pc,          \* position of execute_processors
    key_world,        \* registry substrate: entity -> its key and data component
    key_registry,     \* Registry<T>: key component value -> entity
    key_next,         \* next entity identifier of the registry substrate
    key_pc,           \* the application using Registry<T>: running or panicked
    key_result,       \* what the last RegistryQuery::get / get_mut returned
    handle_registry,  \* HandleRegistry: (config id, path, type) -> handle
    next_handle,      \* next handle the AssetHandleProviders reserve
    extractions,      \* on_loaded_with requests queued by resolve
    resolved,         \* the resolve calls made so far and what they returned
    dyn_pc,           \* the application using DynNodeResolver
    values,           \* entity -> its Value component, where it has one
    seen,             \* what the last EntityAssetQuery / substrate read returned
    begun_settled,    \* the running cycle began with no drop in progress
    assets_in,        \* Assets<S>: the input assets that are available
    request_queue,    \* TransformRequest / ProcessRequest commands not yet applied
    requests,         \* request entity -> its TransformRequest / ProcessRequest
    executors,        \* TransformerSystems / OnAssetLoadedProcessors, per plugin
    assets_out,       \* Assets<T>: output handle -> the asset stored under it
    next_request,     \* next request made (its number is the handle reserved)
    returned,         \* request -> the handle its transform call returned
    runs,             \* request -> how often the user system ran for it
    stage             \* position of run_transformer_systems / run_on_asset_loaded_processors

\* The state of the entity_handle crate and of the async_service crate.
ent == <<world, commands, next_entity, intent_registry, registry,
         entity_handles, intent_handles, drop_entity_q, drop_intent_q,
         handles, next_token, pc, snap>>
svc == <<registration, ack, markers, added_markers, installed, processors,
         req, rsp, tasks, sync_pc>>
\* The state of the registry crate, of dyn_node, of the typed query's data,
\* and the observation of how a cycle began.
reg == <<key_world, key_registry, key_next, key_pc, key_result>>
dyn == <<handle_registry, next_handle, extractions, resolved, dyn_pc>>
qry == <<values, seen>>
\* The state of asset_transformer and on_asset_loaded.
trf == <<assets_in, request_queue, requests, executors, assets_out,
         next_request, returned, runs, stage>>
more == <<reg, dyn, qry, trf>>
hist == <<begun_settled>>

vars == <<world, commands, next_entity, intent_registry, registry,
          entity_handles, intent_handles, drop_entity_q, drop_intent_q,
          handles, next_token, pc, snap,
          registration, ack, markers, added_markers, installed, processors,
          req, rsp, tasks, sync_pc,
          key_world, key_registry, key_next, key_pc, key_result,
          handle_registry, next_handle, extractions, resolved, dyn_pc,
          values, seen, begun_settled,
          assets_in, request_queue, requests, executors, assets_out,
          next_request, returned, runs, stage>>

\* ------------------------------------------------------------ Arc counts
RECURSIVE SumCopies(_, _)
SumCopies(S, B) ==
    IF S = {} THEN 0
    ELSE LET h == CHOOSE x \in S : TRUE
         IN CopiesIn(h, B) + SumCopies(S \ {h}, B)

HandleSet(B) == BagToSet(B)

\* An EntityHandle releases entity_handle first, then intent_handle.
HoldsEntityToken(h) == h.phase = "live"
HoldsIntentToken(h) == h.phase \in {"live", "entity_sending", "entity_released"}

EntityStrongIn(B, t) ==
    SumCopies({h \in HandleSet(B) : h.etok = t /\ HoldsEntityToken(h)}, B)
IntentStrongIn(B, t) ==
    SumCopies({h \in HandleSet(B) : h.itok = t /\ HoldsIntentToken(h)}, B)

EntityStrong(t) == EntityStrongIn(handles, t)
IntentStrong(t) == IntentStrongIn(handles, t)

\* Weak::upgrade on the table entry, as Option: is it Some?
EntityUpgrades(e) ==
    e \in DOMAIN entity_handles /\ EntityStrong(entity_handles[e]) > 0
IntentUpgrades(e, c) ==
    <<e, c>> \in DOMAIN intent_handles /\ IntentStrong(intent_handles[<<e, c>>]) > 0

\* ------------------------------------------------------ function helpers
Put(f, k, v) == [x \in DOMAIN f \cup {k} |-> IF x = k THEN v ELSE f[x]]
Erase(f, k) == [x \in DOMAIN f \ {k} |-> f[x]]

\* ---------------------------------------------------------------- world
Cmd(op, e, comps) == [op |-> op, entity |-> e, comps |-> comps]

ApplyCommand(w, c) ==
    CASE c.op = "spawn" -> Put(w, c.entity, c.comps)
      [] c.op = "insert" ->
            IF c.entity \in DOMAIN w
            THEN [w EXCEPT ![c.entity] = @ \cup c.comps] ELSE w
      [] c.op = "remove" ->
            IF c.entity \in DOMAIN w
            THEN [w EXCEPT ![c.entity] = @ \ c.comps] ELSE w
      [] c.op = "despawn" -> Erase(w, c.entity)

RECURSIVE ApplyAll(_, _)
ApplyAll(w, cs) ==
    IF cs = <<>> THEN w ELSE ApplyAll(ApplyCommand(w, Head(cs)), Tail(cs))

Range(q) == {q[n] : n \in DOMAIN q}
Occurrences(q, x) == Cardinality({n \in DOMAIN q : q[n] = x})

\* What execute finds when it starts a cycle, kept until that cycle's flush:
\*   tokens              the Arc allocations made so far
\*   dropped_entities    entities with a drop event pending and no handle left
\*   dropped_intents     (entity, comp) pairs likewise
\*   reacquired_intents  pairs with a drop event pending and a live token
\*   twice_intents       pairs with two or more drop events pending
\*   recorded_intents    pairs with a drop event pending and a weak entry
\*   entities            the entity identifiers handed out so far
NoSnap == [tokens |-> 0, dropped_entities |-> {}, dropped_intents |-> {},
           reacquired_intents |-> {}, twice_intents |-> {}, entities |-> 0,
           recorded_intents |-> {}]

\* ------------------------------------------------------- async_service
MaxTasks == 2
Tasks == 1..MaxTasks
Systems == {"Inc", "Double", "Parity"}
Inputs == {1, 2}
Pairs == {"u32_u32", "u32_u8"}
NoResult == -1

\* The (input, output) type pair of a system: the I, O of exec_sync.
PairOf(sys) == IF sys = "Parity" THEN "u32_u8" ELSE "u32_u32"

\* world.run_system_with(sys, input)
RunSystem(sys, x) ==
    CASE sys = "Inc" -> x + 1
      [] sys = "Double" -> 2 * x
      [] sys = "Parity" -> x % 2

\* A bridge is the pair of channels made by one registration closure; it is
\* named by its type pair and the call whose closure made it.
Bridges == Pairs \X Tasks
NoBridge == <<"none", 0>>

NewTask == [pc |-> "new", sys |-> "none", input |-> 0, result |-> NoResult,
            bridge |-> NoBridge]

\* AsyncServicePlugin::build
SvcInit ==
    /\ registration = <<>>
    /\ ack = [t \in Tasks |-> <<>>]
    /\ markers = {}
    /\ added_markers = {}
    /\ installed = [p \in Pairs |-> NoBridge]
    /\ processors = <<>>
    /\ req = [b \in Bridges |-> <<>>]
    /\ rsp = [b \in Bridges |-> <<>>]
    /\ tasks = [t \in Tasks |-> NewTask]
    /\ sync_pc = [at |-> "idle", proc |-> 0]

\* ------------------------------------------------------------- registry
MaxKeyEntities == 3
Keys == {"ka", "kb"}
NoKey == "none"
NoCall == [call |-> "none", key |-> NoKey, outcome |-> "none"]

\* Registry::plugin on an empty world
RegInit ==
    /\ key_world = <<>>
    /\ key_registry = <<>>
    /\ key_next = 1
    /\ key_pc = "running"
    /\ key_result = NoCall

\* ------------------------------------------------------------- dyn_node
MaxResolves == 3
Configs == {"c1", "c2"}
Paths == {"/a", "/b"}
AssetTypes == {"A", "B", "C"}
\* The asset types given to init_dyn_asset.
DynAssets == {"A", "B"}

\* DynNodePlugin::build and init_dyn_asset for the application's types
DynInit ==
    /\ handle_registry = <<>>
    /\ next_handle = [t \in DynAssets |-> 1]
    /\ extractions = <<>>
    /\ resolved = <<>>
    /\ dyn_pc = "running"

\* ------------------------------------------------------ EntityAssetQuery
MaxValue == 3
NoFilter == "none"
NoRead == [by |-> "none", filter |-> NoFilter, items |-> {}]

QryInit ==
    /\ values = <<>>
    /\ seen = NoRead

\* --------------------------------- asset_transformer and on_asset_loaded
MaxRequests == 2
Plugins == {"transformer", "on_loaded"}
\* The concrete request types of the application: two transformer systems
\* and one on_loaded processor.
RequestTypes == {"ToGray", "Resize", "Extract"}
PluginOf(ty) == IF ty = "Extract" THEN "on_loaded" ELSE "transformer"
InputHandles == {"h1", "h2"}
Params == {"p1", "p2"}
\* The params of transform and on_loaded: ()
Unit == "unit"
\* Option<P>::None
NoParams == "none"
NoHandle == 0
NoStage == [plugin |-> "none", todo |-> {}]

\* HandleTransformerPlugin::build and AssetObserverPlugin::build
TrfInit ==
    /\ assets_in = {}
    /\ request_queue = <<>>
    /\ requests = <<>>
    /\ executors = [p \in Plugins |-> {}]
    /\ assets_out = <<>>
    /\ next_request = 1
    /\ returned = <<>>
    /\ runs = <<>>
    /\ stage = NoStage

MoreInit ==
    /\ RegInit
    /\ DynInit
    /\ QryInit
    /\ TrfInit
    /\ begun_settled = FALSE

Init ==
    /\ world = <<>>
    /\ commands = <<>>
    /\ next_entity = 1
    /\ intent_registry = [i \in Intents |-> "IntentMarker_" \o i]
    /\ registry = <<>>
    /\ entity_handles = <<>>
    /\ intent_handles = <<>>
    /\ drop_entity_q = <<>>
    /\ drop_intent_q = <<>>
    /\ handles = EmptyBag
    /\ next_token = 1
    /\ pc = "idle"
    /\ snap = NoSnap
    /\ SvcInit
    /\ MoreInit

\* The world of tests/03: one entity made by World::spawn before any handle.
InitExisting ==
    /\ world = (1 :> {Existing})
    /\ commands = <<>>
    /\ next_entity = 2
    /\ intent_registry = [i \in Intents |-> "IntentMarker_" \o i]
    /\ registry = <<>>
    /\ entity_handles = <<>>
    /\ intent_handles = <<>>
    /\ drop_entity_q = <<>>
    /\ drop_intent_q = <<>>
    /\ handles = EmptyBag
    /\ next_token = 1
    /\ pc = "idle"
    /\ snap = NoSnap
    /\ SvcInit
    /\ MoreInit

Handle(e, i, c, et, it, k) ==
    [entity |-> e, intent |-> i, intent_component |-> c,
     etok |-> et, itok |-> it, id |-> k, phase |-> "live"]

\* Systems holding ResMut<EntityHandler> never overlap with execute.
ServerMayRun == pc \in {"idle", "flush_wait"}

IntentRegistered_Never(i) == FALSE

\* self.intent_registry.get(&TypeId::of::<Intent>()) is Some; .expect panics
\* on None.
IntentRegistered(i) == i \in DOMAIN intent_registry

\* The component of IntentMarker<Intent>.
MarkerOf(i) == "IntentMarker_" \o i

\* EntityServer::spawn
SpawnCore(i, bundle, k) ==
    LET e == next_entity
        c == intent_registry[i]
        et == next_token
        it == next_token + 1
    IN /\ IntentRegistered(i)
       /\ next_entity <= MaxEntities
       /\ next_token + 1 <= MaxTokens
       /\ BagCardinality(handles) < MaxHandles
       /\ commands' = Append(commands, Cmd("spawn", e, bundle \cup {c}))
       /\ next_entity' = next_entity + 1
       /\ next_token' = next_token + 2
       /\ entity_handles' = Put(entity_handles, e, et)
       /\ intent_handles' = Put(intent_handles, <<e, c>>, it)
       /\ handles' = handles (+) SetToBag({Handle(e, i, c, et, it, k)})

Spawn(i) ==
    /\ ServerMayRun
    /\ SpawnCore(i, {TestComp}, NoId)
    /\ UNCHANGED <<world, intent_registry, registry, drop_entity_q,
                   drop_intent_q, pc, snap, svc, more, hist>>

RecordEntityToken_Skip(e, t) == entity_handles
RecordIntentToken_Skip(e, c, t) == intent_handles
QueueMarkerInsert_Skip(e, c) == commands
QueueMarkerInsert_Replace(e, c) == <<Cmd("insert", e, {c})>>

\* to_managed: the None arms of the two matches record a fresh weak entry.
RecordEntityToken(e, t) == Put(entity_handles, e, t)
RecordIntentToken(e, c, t) == Put(intent_handles, <<e, c>>, t)
\* to_managed: the None arm of the intent match queues the marker insertion.
QueueMarkerInsert(e, c) == Append(commands, Cmd("insert", e, {c}))

NeedsIntentToken_IfUnrecorded(e, c) == <<e, c>> \notin DOMAIN intent_handles
NeedsEntityToken_Always(e) == TRUE

\* to_managed: .get(..).and_then(|h| h.upgrade()) gave None.
NeedsEntityToken(e) == ~EntityUpgrades(e)
NeedsIntentToken(e, c) == ~IntentUpgrades(e, c)

\* EntityServer::to_managed
ToManagedCore(e, i, k) ==
    LET c == intent_registry[i]
        newE == NeedsEntityToken(e)
        newI == NeedsIntentToken(e, c)
        et == IF newE THEN next_token ELSE entity_handles[e]
        fresh == IF newE THEN next_token + 1 ELSE next_token
        it == IF newI THEN fresh ELSE intent_handles[<<e, c>>]
    IN /\ IntentRegistered(i)
       /\ (IF newI THEN fresh + 1 ELSE fresh) <= MaxTokens + 1
       /\ BagCardinality(handles) < MaxHandles
       /\ entity_handles' = IF newE THEN RecordEntityToken(e, et) ELSE entity_handles
       /\ intent_handles' = IF newI THEN RecordIntentToken(e, c, it) ELSE intent_handles
       /\ commands' = IF newI THEN QueueMarkerInsert(e, c) ELSE commands
       /\ next_token' = IF newI THEN fresh + 1 ELSE fresh
       /\ handles' = handles (+) SetToBag({Handle(e, i, c, et, it, k)})

\* Entity is Copy: any identifier handed out so far can be passed in.
KnownEntities == 1..(next_entity - 1)

\* A panic in a system ends the run of the application.
Panic == pc' = "panicked"

ToManaged(e, i) ==
    /\ ServerMayRun
    /\ ToManagedCore(e, i, NoId)
    /\ UNCHANGED <<world, next_entity, intent_registry, registry,
                   drop_entity_q, drop_intent_q, pc, snap, svc, more, hist>>

\* EntityServer::spawn with Intent unregistered: the spawn command is queued
\* and the StrongEntityHandle made before the lookup panics; unwinding drops
\* the token, which sends its event.
SpawnPanic(i) ==
    /\ ServerMayRun
    /\ ~IntentRegistered(i)
    /\ next_entity <= MaxEntities
    /\ next_token <= MaxTokens
    /\ commands' = Append(commands, Cmd("spawn", next_entity, {TestComp, MarkerOf(i)}))
    /\ next_entity' = next_entity + 1
    /\ next_token' = next_token + 1
    /\ drop_entity_q' = Append(drop_entity_q, next_entity)
    /\ Panic
    /\ UNCHANGED <<world, intent_registry, registry, entity_handles,
                   intent_handles, drop_intent_q, handles, snap, svc, more, hist>>

\* EntityServer::to_managed with Intent unregistered: the entity match has
\* run (a fresh token is recorded weakly when none was live) before the
\* lookup panics; unwinding drops the token or the clone.
ToManagedPanic(e, i) ==
    /\ ServerMayRun
    /\ ~IntentRegistered(i)
    /\ IF NeedsEntityToken(e)
       THEN /\ next_token <= MaxTokens
            /\ entity_handles' = RecordEntityToken(e, next_token)
            /\ next_token' = next_token + 1
            /\ drop_entity_q' = Append(drop_entity_q, e)
       ELSE UNCHANGED <<entity_handles, next_token, drop_entity_q>>
    /\ Panic
    /\ UNCHANGED <<world, commands, next_entity, intent_registry, registry,
                   intent_handles, drop_intent_q, handles, snap, svc, more, hist>>

\* ExtEntityHandle::register_intent, on the App between schedule runs.
RegisterIntent(i) ==
    /\ pc = "idle"
    /\ intent_registry' = Put(intent_registry, i, MarkerOf(i))
    /\ UNCHANGED <<world, commands, next_entity, registry, entity_handles,
                   intent_handles, drop_entity_q, drop_intent_q, handles,
                   next_token, pc, snap, svc, more, hist>>

RegistryLookup_Miss(k) == FALSE
RegistryLookup_Alive(k) == k \in DOMAIN registry /\ registry[k] \in DOMAIN world

\* EntityAssetServer::get_asset: registry.get(&id)
RegistryLookup(k) == k \in DOMAIN registry

GetAsset(k, i) ==
    /\ ServerMayRun
    /\ IF RegistryLookup(k)
       THEN /\ ToManagedCore(registry[k], i, k)
            /\ UNCHANGED <<registry, next_entity>>
       ELSE /\ SpawnCore(i, {IdMarker}, k)
            /\ registry' = Put(registry, k, next_entity)
    /\ UNCHANGED <<world, intent_registry, drop_entity_q, drop_intent_q,
                   pc, snap, svc, more, hist>>

\* ------------------------------------------------- handle values: clone, drop
Rephase(h, p) ==
    (handles (-) SetToBag({h})) (+) SetToBag({[h EXCEPT !.phase = p]})

CloneHandle(h) ==
    /\ h.phase = "live"
    /\ BagCardinality(handles) < MaxHandles
    /\ handles' = handles (+) SetToBag({h})
    /\ UNCHANGED <<world, commands, next_entity, intent_registry, registry,
                   entity_handles, intent_handles, drop_entity_q,
                   drop_intent_q, next_token, pc, snap, svc, more, hist>>

LastEntityOwner_Always(h) == TRUE

\* Arc::drop: fetch_sub on the strong count returned 1, so this owner was the
\* last one and the token's Drop runs.
LastEntityOwner(h) == EntityStrong(h.etok) = 1
LastIntentOwner(h) == IntentStrong(h.itok) = 1

\* Drop of an EntityHandle, field by field; Arc::drop decrements the strong
\* count and, when it was the last, runs the token's Drop (the send).
ReleaseEntityToken(h) ==
    /\ h.phase = "live"
    /\ handles' = Rephase(h, IF LastEntityOwner(h)
                             THEN "entity_sending" ELSE "entity_released")
    /\ UNCHANGED <<world, commands, next_entity, intent_registry, registry,
                   entity_handles, intent_handles, drop_entity_q,
                   drop_intent_q, next_token, pc, snap, svc, more, hist>>

SendDropEntityEvent(h) ==
    /\ h.phase = "entity_sending"
    /\ drop_entity_q' = Append(drop_entity_q, h.entity)
    /\ handles' = Rephase(h, "entity_released")
    /\ UNCHANGED <<world, commands, next_entity, intent_registry, registry,
                   entity_handles, intent_handles, drop_intent_q, next_token,
                   pc, snap, svc, more, hist>>

ReleaseIntentToken(h) ==
    /\ h.phase = "entity_released"
    /\ handles' = IF LastIntentOwner(h)
                  THEN Rephase(h, "intent_sending")
                  ELSE handles (-) SetToBag({h})
    /\ UNCHANGED <<world, commands, next_entity, intent_registry, registry,
                   entity_handles, intent_handles, drop_entity_q,
                   drop_intent_q, next_token, pc, snap, svc, more, hist>>

SendDropIntentEvent(h) ==
    /\ h.phase = "intent_sending"
    /\ drop_intent_q' = Append(drop_intent_q, <<h.entity, h.intent_component>>)
    /\ handles' = handles (-) SetToBag({h})
    /\ UNCHANGED <<world, commands, next_entity, intent_registry, registry,
                   entity_handles, intent_handles, drop_entity_q, next_token,
                   pc, snap, svc, more, hist>>

\* ------------------------------------------------ EntityHandler::execute
ExecuteOrder_Swapped == <<"entities", "intents">>

\* The two drain loops, in source order.
ExecuteOrder == <<"intents", "entities">>

LoopAt(p) ==
    IF p = "first" THEN ExecuteOrder[1]
    ELSE IF p = "second" THEN ExecuteOrder[2] ELSE "none"

AfterLoop(p) == IF p = "first" THEN "second" ELSE "flush_wait"

IntentDropApplies_Inverted(e, c) ==
    <<e, c>> \in DOMAIN intent_handles /\ IntentUpgrades(e, c)
EntityDropApplies_Inverted(e) ==
    e \in DOMAIN entity_handles /\ EntityUpgrades(e)
IntentDropApplies_NoRecheck(e, c) == <<e, c>> \in DOMAIN intent_handles
EntityDropApplies_NoRecheck(e) == e \in DOMAIN entity_handles

\* .get(key).map_or_default(|h| h.upgrade().is_none())
IntentDropApplies(e, c) ==
    <<e, c>> \in DOMAIN intent_handles /\ ~IntentUpgrades(e, c)
EntityDropApplies(e) ==
    e \in DOMAIN entity_handles /\ ~EntityUpgrades(e)

ForgetIntentToken_Keep(e, c) == intent_handles
ForgetEntityToken_Keep(e) == entity_handles

\* self.intent_handles.remove(..) / self.entity_handles.remove(..)
ForgetIntentToken(e, c) == Erase(intent_handles, <<e, c>>)
ForgetEntityToken(e) == Erase(entity_handles, e)

KeyOf(h) == <<h.entity, h.intent_component>>

TakeSnap ==
    [tokens |-> next_token,
     dropped_entities |->
        {e \in Range(drop_entity_q) :
            \A h \in HandleSet(handles) : h.entity /= e},
     dropped_intents |->
        {k \in Range(drop_intent_q) :
            \A h \in HandleSet(handles) : KeyOf(h) /= k},
     reacquired_intents |->
        {k \in Range(drop_intent_q) : IntentUpgrades(k[1], k[2])},
     twice_intents |->
        {k \in Range(drop_intent_q) : Occurrences(drop_intent_q, k) >= 2},
     entities |-> next_entity,
     recorded_intents |->
        {k \in Range(drop_intent_q) : k \in DOMAIN intent_handles}]

ExecuteBeginCore ==
    /\ pc = "idle"
    /\ pc' = "first"
    /\ snap' = TakeSnap
    /\ UNCHANGED <<world, commands, next_entity, intent_registry, registry,
                   entity_handles, intent_handles, drop_entity_q,
                   drop_intent_q, handles, next_token, svc, more>>

ExecuteBegin == ExecuteBeginCore /\ UNCHANGED hist

\* The same step with nothing recorded about the moment it starts at.
ExecuteBeginUnobserved ==
    /\ pc = "idle"
    /\ pc' = "first"
    /\ UNCHANGED <<world, commands, next_entity, intent_registry, registry,
                   entity_handles, intent_handles, drop_entity_q,
                   drop_intent_q, handles, next_token, snap, svc, more, hist>>

\* The same step, keeping whether any handle was part-way through its drop.
ExecuteBeginObserved ==
    /\ ExecuteBeginCore
    /\ begun_settled' = \A h \in HandleSet(handles) : h.phase = "live"

ExecuteIntentStep ==
    /\ LoopAt(pc) = "intents"
    /\ drop_intent_q /= <<>>
    /\ LET e == Head(drop_intent_q)[1]
           c == Head(drop_intent_q)[2]
       IN IF IntentDropApplies(e, c)
          THEN /\ commands' = Append(commands, Cmd("remove", e, {c}))
               /\ intent_handles' = ForgetIntentToken(e, c)
          ELSE UNCHANGED <<commands, intent_handles>>
    /\ drop_intent_q' = Tail(drop_intent_q)
    /\ UNCHANGED <<world, next_entity, intent_registry, registry,
                   entity_handles, drop_entity_q, handles, next_token, pc,
                   snap, svc, more, hist>>

ExecuteIntentsDone ==
    /\ LoopAt(pc) = "intents"
    /\ drop_intent_q = <<>>
    /\ pc' = AfterLoop(pc)
    /\ UNCHANGED <<world, commands, next_entity, intent_registry, registry,
                   entity_handles, intent_handles, drop_entity_q,
                   drop_intent_q, handles, next_token, snap, svc, more, hist>>

ExecuteEntityStep ==
    /\ LoopAt(pc) = "entities"
    /\ drop_entity_q /= <<>>
    /\ LET e == Head(drop_entity_q)
       IN IF EntityDropApplies(e)
          THEN /\ commands' = Append(commands, Cmd("despawn", e, {}))
               /\ entity_handles' = ForgetEntityToken(e)
          ELSE UNCHANGED <<commands, entity_handles>>
    /\ drop_entity_q' = Tail(drop_entity_q)
    /\ UNCHANGED <<world, next_entity, intent_registry, registry,
                   intent_handles, drop_intent_q, handles, next_token, pc,
                   snap, svc, more, hist>>

ExecuteEntitiesDone ==
    /\ LoopAt(pc) = "entities"
    /\ drop_entity_q = <<>>
    /\ pc' = AfterLoop(pc)
    /\ UNCHANGED <<world, commands, next_entity, intent_registry, registry,
                   entity_handles, intent_handles, drop_entity_q,
                   drop_intent_q, handles, next_token, snap, svc, more, hist>>

\* The host applies the command buffers at its sync points; the buffer that
\* execute filled is applied before execute runs again.
Flush ==
    /\ \/ pc = "flush_wait"
       \/ pc = "idle" /\ commands /= <<>>
    /\ world' = ApplyAll(world, commands)
    /\ commands' = <<>>
    /\ pc' = "idle"
    /\ snap' = NoSnap
    /\ UNCHANGED <<next_entity, intent_registry, registry, entity_handles,
                   intent_handles, drop_entity_q, drop_intent_q, handles,
                   next_token, svc, more, hist>>

\* Handle values, the reconciler and the flush: common to both specifications.
LifecycleRest ==
    \/ \E h \in HandleSet(handles) : CloneHandle(h)
    \/ \E h \in HandleSet(handles) : ReleaseEntityToken(h)
    \/ \E h \in HandleSet(handles) : SendDropEntityEvent(h)
    \/ \E h \in HandleSet(handles) : ReleaseIntentToken(h)
    \/ \E h \in HandleSet(handles) : SendDropIntentEvent(h)
    \/ ExecuteIntentStep
    \/ ExecuteIntentsDone
    \/ ExecuteEntityStep
    \/ ExecuteEntitiesDone
    \/ Flush

Lifecycle == ExecuteBegin \/ LifecycleRest

\* EntityServer with the start of every cycle observed.
NextObserved ==
    \/ \E i \in Intents : Spawn(i)
    \/ \E e \in KnownEntities, i \in Intents : ToManaged(e, i)
    \/ ExecuteBeginObserved
    \/ LifecycleRest

SpecObserved == Init /\ [][NextObserved]_vars

\* EntityServer over the entities it spawns.
Next ==
    \/ \E i \in Intents : Spawn(i)
    \/ \E e \in KnownEntities, i \in Intents : ToManaged(e, i)
    \/ Lifecycle

Spec == Init /\ [][Next]_vars

\* EntityServer::to_managed over an entity that existed before.
NextExisting ==
    \/ \E e \in KnownEntities, i \in Intents : ToManaged(e, i)
    \/ Lifecycle

SpecExisting == InitExisting /\ [][NextExisting]_vars

\* The application right after EntityHandlePlugin::build, which registers
\* only the unit intent.
InitSetup ==
    /\ world = <<>>
    /\ commands = <<>>
    /\ next_entity = 1
    /\ intent_registry = ("Unit" :> MarkerOf("Unit"))
    /\ registry = <<>>
    /\ entity_handles = <<>>
    /\ intent_handles = <<>>
    /\ drop_entity_q = <<>>
    /\ drop_intent_q = <<>>
    /\ handles = EmptyBag
    /\ next_token = 1
    /\ pc = "idle"
    /\ snap = NoSnap
    /\ SvcInit
    /\ MoreInit

\* EntityServer with intents registered, or not, by the application.
NextSetup ==
    \/ \E i \in Intents : RegisterIntent(i)
    \/ \E i \in Intents : Spawn(i)
    \/ \E i \in Intents : SpawnPanic(i)
    \/ \E e \in KnownEntities, i \in Intents : ToManaged(e, i)
    \/ \E e \in KnownEntities, i \in Intents : ToManagedPanic(e, i)
    \/ Lifecycle

SpecSetup == InitSetup /\ [][NextSetup]_vars

\* EntityAssetServer<Id> over identity-keyed entities.
NextAsset ==
    \/ \E k \in Ids, i \in Intents : GetAsset(k, i)
    \/ Lifecycle

SpecAsset == Init /\ [][NextAsset]_vars

\* ------------------------------------------------------------ vocabulary
HasCmd(op, e, comps) == \E n \in DOMAIN commands : commands[n] = Cmd(op, e, comps)
CountCmd(op, e, comps) ==
    Cardinality({n \in DOMAIN commands : commands[n] = Cmd(op, e, comps)})
IntentComponents == {intent_registry[i] : i \in DOMAIN intent_registry}

\* The flush that ends a reconcile cycle.
CycleFlush == pc = "flush_wait" /\ pc' = "idle"

\* A live handle for the pair whose tokens both predate the running cycle:
\* the pair has been held during the whole of execute.
HeldSinceBegin(k) ==
    \E h \in HandleSet(handles) :
        /\ h.phase = "live" /\ KeyOf(h) = k
        /\ h.etok < snap.tokens /\ h.itok < snap.tokens

\* C1: reacquire-before-reconcile safety.  When a cycle starts with a drop
\* event pending for (e, I) and a handle for (e, I) that was reacquired before
\* the cycle and is still held at its flush, the cycle has queued neither the
\* removal of I's marker nor the despawn of e, and after the flush e is alive
\* with I's marker and with every other component whose claim is live.
C1_ReacquireSafe ==
    [][CycleFlush =>
        \A k \in snap.reacquired_intents :
            HeldSinceBegin(k) =>
                /\ ~HasCmd("remove", k[1], {k[2]})
                /\ ~HasCmd("despawn", k[1], {})
                /\ k[1] \in DOMAIN world =>
                      /\ k[1] \in DOMAIN world'
                      /\ k[2] \in world'[k[1]]
                      /\ \A c \in world[k[1]] :
                            (c \notin IntentComponents \/ IntentUpgrades(k[1], c))
                                => c \in world'[k[1]]]_vars

C1_Witness ==
    /\ pc = "flush_wait"
    /\ drop_intent_q = <<>> /\ drop_entity_q = <<>>
    /\ \E k \in snap.reacquired_intents :
          /\ HeldSinceBegin(k)
          /\ k[1] \in DOMAIN world
          /\ k[2] \in world[k[1]]
          /\ \E c \in world[k[1]] \cap IntentComponents : c /= k[2]

\* The entity is in the world, or its spawn is queued.
SpawnQueued(e) == \E n \in DOMAIN commands :
                    commands[n].op = "spawn" /\ commands[n].entity = e
Exists(e) == e \in DOMAIN world \/ SpawnQueued(e)
\* Created by EntityServer::spawn with the caller's bundle.
CreatedBySpawn(e) ==
    \/ e \in DOMAIN world /\ TestComp \in world[e]
    \/ \E n \in DOMAIN commands :
          /\ commands[n].op = "spawn" /\ commands[n].entity = e
          /\ TestComp \in commands[n].comps

\* C2: single-reference despawn.  An entity created by spawn whose handles
\* have all been dropped when a reconcile cycle starts (its drop event is
\* pending, no handle is left) is not in the world after that cycle's flush.
C2_SingleReferenceDespawn ==
    [][CycleFlush =>
        \A e \in snap.dropped_entities :
            CreatedBySpawn(e) => e \notin DOMAIN world']_vars

C2_Witness ==
    /\ pc = "flush_wait"
    /\ \E e \in snap.dropped_entities :
          /\ e \in DOMAIN world
          /\ TestComp \in world[e]
          /\ Cardinality(world[e] \cap IntentComponents) = 1
          /\ HasCmd("despawn", e, {})

\* Live handles on e whose tokens all predate the running cycle.
HoldersSinceBegin(e) ==
    {h \in HandleSet(handles) :
        /\ h.phase = "live" /\ h.entity = e
        /\ h.etok < snap.tokens /\ h.itok < snap.tokens}

\* A token for the pair was created after the running cycle began.
ReacquiredSinceBegin(k) ==
    k \in DOMAIN intent_handles /\ intent_handles[k] >= snap.tokens

\* C3: multi-intent independence.  When the last A-handle of e was dropped
\* before a cycle (and A is not reacquired before the flush) while e is held
\* under another intent during the whole cycle, the flush leaves e alive
\* without A's marker and with the markers of the holders; and an entity whose
\* handles were all dropped before the cycle is gone after the flush.
C3_MultiIntentIndependence ==
    [][CycleFlush =>
        /\ \A k \in snap.dropped_intents :
              (/\ Exists(k[1])
               /\ ~ReacquiredSinceBegin(k)
               /\ HoldersSinceBegin(k[1]) /= {})
              => /\ k[1] \in DOMAIN world'
                 /\ k[2] \notin world'[k[1]]
                 /\ \A h \in HoldersSinceBegin(k[1]) :
                       h.intent_component \in world'[k[1]]
        /\ \A e \in snap.dropped_entities : e \notin DOMAIN world']_vars

C3_Witness ==
    /\ pc = "flush_wait"
    /\ \E k \in snap.dropped_intents :
          /\ k[1] \in DOMAIN world
          /\ k[2] \in world[k[1]]
          /\ k \notin DOMAIN intent_handles
          /\ HasCmd("remove", k[1], {k[2]})
          /\ ~HasCmd("despawn", k[1], {})
          /\ \E h \in HoldersSinceBegin(k[1]) :
                h.intent_component /= k[2] /\ h.intent_component \in world[k[1]]

\* A step that applies the queued commands to the world.
FlushStep == commands /= <<>> /\ commands' = <<>>

\* Some handle value still owns the entity's strong token.
EntityHeld(e) ==
    \E h \in HandleSet(handles) : h.entity = e /\ HoldsEntityToken(h)

\* C4: no despawn under a live hold.  Whenever a flush applies a despawn
\* command, no handle holds the strong token of that entity.
C4_NoDespawnUnderHold ==
    [][FlushStep =>
        \A e \in DOMAIN world :
            HasCmd("despawn", e, {}) => ~EntityHeld(e)]_vars

\* C5: no marker removal under a live claim.  Whenever the command queue is
\* empty and a handle owning the (entity, intent) token exists on an entity
\* in the world, the entity carries that intent's marker.
C5_MarkerUnderLiveClaim ==
    commands = <<>> =>
        \A h \in HandleSet(handles) :
            (HoldsIntentToken(h) /\ h.entity \in DOMAIN world)
                => h.intent_component \in world[h.entity]

\* A claim that was reacquired: on one entity, two intent tokens are younger
\* than the pair made when the entity token was made.
C5_Witness ==
    /\ commands = <<>>
    /\ pc = "idle"
    /\ drop_intent_q = <<>> /\ drop_entity_q = <<>>
    /\ \E h, g \in HandleSet(handles) :
          /\ h.phase = "live" /\ g.phase = "live"
          /\ g.entity = h.entity /\ g.etok = h.etok
          /\ g.itok > h.etok + 1 /\ h.itok > g.itok
          /\ h.entity \in DOMAIN world
          /\ {h.intent_component, g.intent_component} \subseteq world[h.entity]

\* The entity was handed out and is gone: its despawn has been applied.
Vanished(e) == e < next_entity /\ ~Exists(e)

\* C6: the reconciler never queues a marker removal for an entity whose
\* despawn it queued in an earlier cycle.
C6_NoRemovalAfterDespawn ==
    [][\A e \in EntityIds, c \in IntentComponents :
        commands' = Append(commands, Cmd("remove", e, {c}))
            => ~Vanished(e)]_vars

\* C7: idempotence against duplicate drop events.  Within one cycle, a drop
\* event for a key whose removal (despawn) the cycle has already queued is
\* consumed without queuing a command and without touching the weak tables.
C7_DuplicateDropIdempotent ==
    [][/\ (/\ LoopAt(pc) = "intents" /\ drop_intent_q /= <<>>
            /\ drop_intent_q' = Tail(drop_intent_q)
            /\ HasCmd("remove", Head(drop_intent_q)[1], {Head(drop_intent_q)[2]}))
           => UNCHANGED <<commands, entity_handles, intent_handles>>
       /\ (/\ LoopAt(pc) = "entities" /\ drop_entity_q /= <<>>
            /\ drop_entity_q' = Tail(drop_entity_q)
            /\ HasCmd("despawn", Head(drop_entity_q), {}))
           => UNCHANGED <<commands, entity_handles, intent_handles>>]_vars

C7_Witness ==
    /\ pc = "flush_wait"
    /\ drop_intent_q = <<>> /\ drop_entity_q = <<>>
    /\ \E k \in snap.twice_intents :
          /\ CountCmd("remove", k[1], {k[2]}) = 1
          /\ CountCmd("despawn", k[1], {}) = 1
          /\ k \notin DOMAIN intent_handles
          /\ k[1] \notin DOMAIN entity_handles

\* C8: identity dedup.  Every handle returned by get_asset(k) refers to the
\* entity registered for k, distinct keys are registered to distinct
\* entities, and one entity is spawned per registered key.
C8_IdentityDedup ==
    /\ \A h \in HandleSet(handles) :
          h.id /= NoId =>
              h.id \in DOMAIN registry /\ registry[h.id] = h.entity
    /\ \A k1, k2 \in DOMAIN registry :
          k1 /= k2 => registry[k1] /= registry[k2]
    /\ next_entity - 1 = Cardinality(DOMAIN registry)

C8_Witness ==
    /\ pc = "idle"
    /\ commands = <<>>
    /\ \E h, g \in HandleSet(handles) :
          /\ h.phase = "live" /\ g.phase = "live"
          /\ h.id = g.id /\ h.id /= NoId
          /\ h.intent /= g.intent
          /\ h.entity = g.entity
          /\ h.entity \in DOMAIN world
          /\ IdMarker \in world[h.entity]
          /\ {h.intent_component, g.intent_component} \subseteq world[h.entity]

\* Created by World::spawn, outside the handle system.
CreatedOutside(e) == e \in DOMAIN world /\ Existing \in world[e]

\* C9: to_managed on a pre-existing entity.  A live handle owns the tokens
\* recorded for the entity it dereferences to; a flush leaves the marker of
\* every live handle on such an entity attached (unless the flush despawns
\* it); and once all its handles are dropped one cycle despawns the entity.
C9_ToManagedExisting ==
    [][/\ \A h \in HandleSet(handles') :
            h.phase = "live" =>
                /\ h.entity \in DOMAIN entity_handles'
                /\ entity_handles'[h.entity] = h.etok
                /\ KeyOf(h) \in DOMAIN intent_handles'
                /\ intent_handles'[KeyOf(h)] = h.itok
       /\ FlushStep =>
            \A h \in HandleSet(handles) :
                (/\ h.phase = "live" /\ CreatedOutside(h.entity)
                 /\ ~HasCmd("despawn", h.entity, {}))
                => /\ h.entity \in DOMAIN world'
                   /\ Existing \in world'[h.entity]
                   /\ h.intent_component \in world'[h.entity]
       /\ CycleFlush =>
            \A e \in snap.dropped_entities :
                CreatedOutside(e) => e \notin DOMAIN world']_vars

C9_Witness ==
    /\ pc = "flush_wait"
    /\ \E e \in snap.dropped_entities :
          /\ CreatedOutside(e)
          /\ world[e] \cap IntentComponents /= {}
          /\ HasCmd("despawn", e, {})

\* C10: intent-before-entity order.  Intent-drop events are consumed only by
\* the first loop of a call and entity-drop events only by the second, the
\* first loop ends on an empty intent channel, and in the command queue no
\* despawn precedes a marker removal.
C10_IntentBeforeEntity ==
    [][/\ (drop_intent_q /= <<>> /\ drop_intent_q' = Tail(drop_intent_q))
            => pc = "first"
       /\ (drop_entity_q /= <<>> /\ drop_entity_q' = Tail(drop_entity_q))
            => pc = "second"
       /\ (pc = "first" /\ pc' = "second") => drop_intent_q = <<>>
       /\ \A m, n \in DOMAIN commands' :
            (commands'[m].op = "despawn" /\ commands'[n].op = "remove")
                => n < m]_vars

C10_Witness ==
    /\ pc = "flush_wait"
    /\ \E m, n \in DOMAIN commands :
          /\ commands[m].op = "remove" /\ commands[n].op = "despawn"
          /\ commands[m].entity /= commands[n].entity
          /\ m < n

\* A token is owned (its strong count is positive), or owes its event (the
\* count reached zero and the send has not happened yet).
EntityOwnedIn(B, t) ==
    \E h \in HandleSet(B) : h.etok = t /\ HoldsEntityToken(h)
IntentOwnedIn(B, t) ==
    \E h \in HandleSet(B) : h.itok = t /\ HoldsIntentToken(h)
EntityOwesIn(B, t) ==
    \E h \in HandleSet(B) : h.etok = t /\ h.phase = "entity_sending"
IntentOwesIn(B, t) ==
    \E h \in HandleSet(B) : h.itok = t /\ h.phase = "intent_sending"
AllHandles == HandleSet(handles) \cup HandleSet(handles')
\* An owner of the token released it in this step.
Released(h) == CopiesIn(h, handles') < CopiesIn(h, handles)

\* C11: a drop event is enqueued exactly when a token's count reaches zero.
\* A step that adds a handle value (clone) enqueues nothing; a release that
\* leaves the count positive enqueues nothing and owes no event; the release
\* that takes the count to zero owes one event, and at most one is ever owed
\* per token; an owed event is paid by appending the token's entity (pair) to
\* its channel; and nothing else enters a channel.
C11_DropEventAtZero ==
    [][/\ BagCardinality(handles') > BagCardinality(handles)
            => UNCHANGED <<drop_entity_q, drop_intent_q>>
       /\ handles' /= handles =>
            \A h \in AllHandles :
               /\ EntityOwesIn(handles', h.etok) =>
                    /\ ~EntityOwnedIn(handles', h.etok)
                    /\ \A g \in HandleSet(handles') :
                          (g.etok = h.etok /\ g.phase = "entity_sending")
                              => CopiesIn(g, handles') = 1
                    /\ Cardinality({g \in HandleSet(handles') :
                          g.etok = h.etok /\ g.phase = "entity_sending"}) = 1
               /\ (HoldsEntityToken(h) /\ Released(h)
                      /\ EntityOwnedIn(handles', h.etok))
                    => /\ ~EntityOwesIn(handles', h.etok)
                       /\ UNCHANGED <<drop_entity_q, drop_intent_q>>
               /\ (EntityOwnedIn(handles, h.etok)
                      /\ ~EntityOwnedIn(handles', h.etok))
                    => /\ EntityOwesIn(handles', h.etok)
                       /\ UNCHANGED <<drop_entity_q, drop_intent_q>>
               /\ (EntityOwesIn(handles, h.etok)
                      /\ ~EntityOwesIn(handles', h.etok))
                    => drop_entity_q' = Append(drop_entity_q, h.entity)
               /\ IntentOwesIn(handles', h.itok) =>
                    /\ ~IntentOwnedIn(handles', h.itok)
                    /\ \A g \in HandleSet(handles') :
                          (g.itok = h.itok /\ g.phase = "intent_sending")
                              => CopiesIn(g, handles') = 1
                    /\ Cardinality({g \in HandleSet(handles') :
                          g.itok = h.itok /\ g.phase = "intent_sending"}) = 1
               /\ (h.phase = "entity_released" /\ Released(h)
                      /\ IntentOwnedIn(handles', h.itok))
                    => /\ ~IntentOwesIn(handles', h.itok)
                       /\ UNCHANGED <<drop_entity_q, drop_intent_q>>
               /\ (IntentOwnedIn(handles, h.itok)
                      /\ ~IntentOwnedIn(handles', h.itok))
                    => /\ IntentOwesIn(handles', h.itok)
                       /\ UNCHANGED <<drop_entity_q, drop_intent_q>>
               /\ (IntentOwesIn(handles, h.itok)
                      /\ ~IntentOwesIn(handles', h.itok))
                    => drop_intent_q' = Append(drop_intent_q, KeyOf(h))
       /\ Len(drop_entity_q') > Len(drop_entity_q)
            => \E h \in HandleSet(handles) :
                  /\ h.phase = "entity_sending"
                  /\ ~EntityOwesIn(handles', h.etok)
                  /\ drop_entity_q' = Append(drop_entity_q, h.entity)
       /\ Len(drop_intent_q') > Len(drop_intent_q)
            => \E h \in HandleSet(handles) :
                  /\ h.phase = "intent_sending"
                  /\ ~IntentOwesIn(handles', h.itok)
                  /\ drop_intent_q' = Append(drop_intent_q, KeyOf(h))]_vars

\* One entity's only handle has been dropped (one event in each channel, no
\* owner left) while on another entity a handle sharing both tokens with a
\* live one has released its entity token without an event.
C11_Witness ==
    /\ Len(drop_entity_q) = 1 /\ Len(drop_intent_q) = 1
    /\ drop_intent_q[1][1] = drop_entity_q[1]
    /\ \A h \in HandleSet(handles) : h.entity /= drop_entity_q[1]
    /\ \E h, g \in HandleSet(handles) :
          /\ h.phase = "live" /\ g.phase = "entity_released"
          /\ h.etok = g.etok /\ h.itok = g.itok

\* C12 as stated: the marker of (entity, intent) is in storage if and only if
\* a live StrongEntityIntentHandle for the pair existed at the most recent
\* reconciliation.  Taken right after the flush of a reconcile cycle: a pair
\* that had no handle when the cycle began (its drop event delivered, or its
\* entity not yet handed out) has no marker, and a pair held from before the
\* cycle has its marker.
C12_MarkerIffLiveAtReconcile ==
    [][CycleFlush =>
        \A e \in DOMAIN world', c \in IntentComponents :
            /\ (<<e, c>> \in snap.dropped_intents \/ e >= snap.entities)
                  => c \notin world'[e]
            /\ HeldSinceBegin(<<e, c>>) => c \in world'[e]]_vars

\* C12, amended: with no deferred command pending, an entity in storage
\* carries the marker of (entity, intent) if and only if the handler's weak
\* table records a token for the pair; and every handle that owns an intent
\* token owns the one the table records for its pair.
C12_MarkerIffRecorded ==
    /\ commands = <<>> =>
          \A e \in DOMAIN world, c \in IntentComponents :
              c \in world[e] <=> <<e, c>> \in DOMAIN intent_handles
    /\ \A h \in HandleSet(handles) :
          HoldsIntentToken(h) =>
              /\ KeyOf(h) \in DOMAIN intent_handles
              /\ intent_handles[KeyOf(h)] = h.itok

\* An entity in storage with one marker taken by to_managed and recorded, and
\* the other intent's marker absent and unrecorded after its reconciliation.
C12_Witness ==
    /\ commands = <<>> /\ pc = "idle"
    /\ \E e \in DOMAIN world, c1, c2 \in IntentComponents :
          /\ c1 \in world[e] /\ c2 \notin world[e]
          /\ <<e, c1>> \in DOMAIN intent_handles
          /\ <<e, c2>> \notin DOMAIN intent_handles
          /\ e \in DOMAIN entity_handles
          /\ intent_handles[<<e, c1>>] > entity_handles[e] + 1
          /\ IntentUpgrades(e, c1)

WorldAfterFlush == ApplyAll(world', commands')

\* C14: every handle that get_asset returns identifies an entity that, once
\* the pending commands are flushed, exists and carries the identity marker.
\* Stated for calls made between cycles with no command pending.
C14_GetAssetIdentifiesAsset ==
    [][(pc = "idle" /\ commands = <<>>) =>
        \A h \in HandleSet(handles') :
            (h.id /= NoId /\ CopiesIn(h, handles') > CopiesIn(h, handles))
                => /\ h.entity \in DOMAIN WorldAfterFlush
                   /\ IdMarker \in WorldAfterFlush[h.entity]]_vars

\* C15: EntityRegistry mappings are permanent.  No step removes a key from
\* the registry or changes the entity a key is mapped to.
C15_RegistryPermanent ==
    [][\A k \in DOMAIN registry :
          k \in DOMAIN registry' /\ registry'[k] = registry[k]]_vars

\* A key still mapped to its entity after the reconciler despawned it and a
\* later get_asset for the key returned.
C15_Witness ==
    /\ pc = "idle" /\ commands = <<>>
    /\ \E k \in DOMAIN registry :
          /\ registry[k] \notin DOMAIN world
          /\ \E h \in HandleSet(handles) :
                /\ h.id = k /\ h.phase = "live" /\ h.entity = registry[k]
                /\ entity_handles[registry[k]] = h.etok

CommandOps == {commands[n].op : n \in DOMAIN commands}

\* C16: structural changes are deferred.  Storage changes only in a flush,
\* which applies exactly the queued commands; every other step that touches
\* the command queue appends one command to it and leaves storage unchanged.
C16_OnlyQueueUntilFlush ==
    [][/\ world' /= world =>
            /\ commands /= <<>> /\ commands' = <<>>
            /\ world' = ApplyAll(world, commands)
       /\ (commands' /= commands /\ commands' /= <<>>) =>
            /\ Len(commands') = Len(commands) + 1
            /\ SubSeq(commands', 1, Len(commands)) = commands
            /\ world' = world]_vars

\* Spawn, marker insertion, marker removal and despawn all queued, unapplied.
C16_Witness ==
    /\ pc = "flush_wait"
    /\ CommandOps = {"spawn", "insert", "remove", "despawn"}
    /\ \A n \in DOMAIN commands :
          commands[n].op = "spawn" => commands[n].entity \notin DOMAIN world

\* A step in which to_managed (or a clone) hands out the handle value h.
HandsOut(h) ==
    /\ BagCardinality(handles') > BagCardinality(handles)
    /\ CopiesIn(h, handles') > CopiesIn(h, handles)
    /\ next_entity' = next_entity

\* C17: to_managed clones live tokens and records only what is missing.  For
\* the handle (e, Intent) it hands out: the weak (e, Intent) entry is replaced
\* by a fresh token and the marker insertion is queued if and only if no live
\* intent token existed at the call; the weak entity entry is replaced by a
\* fresh token if and only if no live entity token existed; with both tokens
\* live, no command is queued, both tables stay as they are and the handle
\* shares the recorded tokens.
C17_ToManagedClonesLive ==
    [][\A h \in HandleSet(handles') :
        HandsOut(h) =>
            LET e == h.entity
                c == h.intent_component
            IN /\ IF IntentUpgrades(e, c)
                  THEN /\ UNCHANGED <<commands, intent_handles>>
                       /\ h.itok = intent_handles[<<e, c>>]
                  ELSE /\ commands' = Append(commands, Cmd("insert", e, {c}))
                       /\ h.itok >= next_token
                       /\ intent_handles' = Put(intent_handles, <<e, c>>, h.itok)
               /\ IF EntityUpgrades(e)
                  THEN /\ UNCHANGED entity_handles
                       /\ h.etok = entity_handles[e]
                  ELSE /\ h.etok >= next_token
                       /\ entity_handles' = Put(entity_handles, e, h.etok)
               /\ UNCHANGED <<world, drop_entity_q, drop_intent_q>>]_vars

\* to_managed under a second intent has just cloned the live entity token and
\* recorded a fresh intent token, with its marker insertion queued.
C17_Witness ==
    /\ pc = "idle"
    /\ \E h, g \in HandleSet(handles) :
          /\ h.phase = "live" /\ g.phase = "live"
          /\ h.entity = g.entity /\ h.etok = g.etok
          /\ h.itok = h.etok + 1 /\ g.itok > h.itok
          /\ g.intent_component /= h.intent_component
          /\ entity_handles[g.entity] = h.etok
          /\ intent_handles[KeyOf(g)] = g.itok
          /\ commands = <<Cmd("insert", g.entity, {g.intent_component})>>

RegisteredMarkers == {intent_registry[i] : i \in DOMAIN intent_registry}

\* C18: spawn and to_managed panic exactly when the intent is unregistered.
\* A handle is handed out only under a registered intent; a spawn that panics
\* has queued the marker of an unregistered intent; a to_managed that panics
\* was possible only with some intent unregistered; and once every intent is
\* registered no call panics, whatever the entity identifier.
C18_PanicIffUnregistered ==
    [][/\ \A h \in HandleSet(handles') :
            (/\ BagCardinality(handles') > BagCardinality(handles)
             /\ CopiesIn(h, handles') > CopiesIn(h, handles))
            => /\ h.intent \in DOMAIN intent_registry
               /\ pc' = pc
       /\ (pc /= "panicked" /\ pc' = "panicked") =>
            /\ Intents \ DOMAIN intent_registry /= {}
            /\ handles' = handles
            /\ next_entity' /= next_entity =>
                  /\ commands' /= commands
                  /\ commands'[Len(commands')].comps \cap RegisteredMarkers = {}
       /\ Intents \subseteq DOMAIN intent_registry => pc' /= "panicked"]_vars

\* The run ended in a panic after a call under a registered intent returned
\* its handle, with another intent still unregistered.
C18_Witness ==
    /\ pc = "panicked"
    /\ \E h \in HandleSet(handles) : h.phase = "live"
    /\ Intents \cap DOMAIN intent_registry /= {}
    /\ Intents \ DOMAIN intent_registry /= {}

\* ------------------------------------------------- async_service: exec_sync
\* exec_sync up to the first await: the closure is sent for registration.
ExecSyncStart(t, sys, x) ==
    /\ tasks[t].pc = "new"
    /\ registration' = Append(registration, t)
    /\ tasks' = [tasks EXCEPT ![t] = [pc |-> "await_ack", sys |-> sys,
                                      input |-> x, result |-> NoResult,
                                      bridge |-> NoBridge]]
    /\ UNCHANGED <<ack, markers, added_markers, installed, processors, req,
                   rsp, sync_pc>>
    /\ UNCHANGED <<ent, more, hist>>

AckReceived_Always(t) == TRUE

\* rx.recv().await has a message: the closure of this call has run.
AckReceived(t) == ack[t] /= <<>>

\* The bridge an ack names.
AckedBridge(t) == IF ack[t] = <<>> THEN NoBridge ELSE ack[t][2]

\* The sync half of bridge b is in the world: its request receiver and its
\* response sender are alive.  insert_resource drops the half it replaces,
\* which closes both channels of the replaced bridge.
SyncHalfAlive(b) == b \in Bridges /\ installed[b[1]] = b

\* exec_sync: the ack arrives and the request is sent on the bridge it names;
\* send on a closed channel is an Err, which unwrap turns into a panic.
ExecSyncSendRequest(t) ==
    /\ tasks[t].pc = "await_ack"
    /\ AckReceived(t)
    /\ IF SyncHalfAlive(AckedBridge(t))
       THEN /\ req' = [req EXCEPT ![AckedBridge(t)] =
                          Append(@, <<tasks[t].sys, tasks[t].input>>)]
            /\ tasks' = [tasks EXCEPT ![t].pc = "await_rsp",
                                      ![t].bridge = AckedBridge(t)]
       ELSE /\ tasks' = [tasks EXCEPT ![t].pc = "panicked"]
            /\ UNCHANGED req
    /\ ack' = [ack EXCEPT ![t] = <<>>]
    /\ UNCHANGED <<registration, markers, added_markers, installed,
                   processors, rsp, sync_pc>>
    /\ UNCHANGED <<ent, more, hist>>

\* exec_sync: bridge.rsp.recv() takes the next output of the bridge's
\* channel; on an empty closed channel it is an Err and unwrap panics.
ExecSyncRecvResponse(t) ==
    /\ tasks[t].pc = "await_rsp"
    /\ IF rsp[tasks[t].bridge] /= <<>>
       THEN /\ tasks' = [tasks EXCEPT ![t].pc = "done",
                                      ![t].result = Head(rsp[tasks[t].bridge])]
            /\ rsp' = [rsp EXCEPT ![tasks[t].bridge] = Tail(@)]
       ELSE /\ ~SyncHalfAlive(tasks[t].bridge)
            /\ tasks' = [tasks EXCEPT ![t].pc = "panicked"]
            /\ UNCHANGED rsp
    /\ UNCHANGED <<registration, ack, markers, added_markers, installed,
                   processors, req, sync_pc>>
    /\ UNCHANGED <<ent, more, hist>>

\* ------------------------------------------ async_service: execute_processors
ExecuteProcessorsBegin ==
    /\ sync_pc.at = "idle"
    /\ sync_pc' = [at |-> "registering", proc |-> 0]
    /\ UNCHANGED <<registration, ack, markers, added_markers, installed,
                   processors, req, rsp, tasks>>
    /\ UNCHANGED <<ent, more, hist>>

IsResourceAdded_Exists(p) == p \in markers

\* world.is_resource_added::<BridgeMarker<I, O>>(): the resource exists and
\* was added since the world's last change tick, which inside an exclusive
\* system is the tick at which that system last ran.
IsResourceAdded(p) == p \in added_markers

\* One registration closure, run on the world.  init_resource leaves an
\* existing BridgeMarker, and the tick of its addition, as they are.
RunRegistration ==
    /\ sync_pc.at = "registering"
    /\ registration /= <<>>
    /\ LET t == Head(registration)
           p == PairOf(tasks[t].sys)
       IN IF ~IsResourceAdded(p)
          THEN /\ markers' = markers \cup {p}
               /\ added_markers' = IF p \in markers THEN added_markers
                                                    ELSE added_markers \cup {p}
               /\ processors' = Append(processors, p)
               /\ installed' = [installed EXCEPT ![p] = <<p, t>>]
               /\ ack' = [ack EXCEPT ![t] = <<tasks[t].sys, <<p, t>>>>]
          ELSE /\ ack' = [ack EXCEPT ![t] = <<tasks[t].sys, installed[p]>>]
               /\ UNCHANGED <<markers, added_markers, processors, installed>>
    /\ registration' = Tail(registration)
    /\ UNCHANGED <<req, rsp, tasks, sync_pc>>
    /\ UNCHANGED <<ent, more, hist>>

\* The position after a stage of execute_processors; when the system returns
\* its last-run tick moves past every addition made so far.
RegistrationsDone ==
    /\ sync_pc.at = "registering"
    /\ registration = <<>>
    /\ IF processors = <<>>
       THEN /\ sync_pc' = [at |-> "idle", proc |-> 0]
            /\ added_markers' = {}
       ELSE /\ sync_pc' = [at |-> "processing", proc |-> 1]
            /\ UNCHANGED added_markers
    /\ UNCHANGED <<registration, ack, markers, installed, processors, req,
                   rsp, tasks>>
    /\ UNCHANGED <<ent, more, hist>>

\* try_exec_processor: one turn of the while loop, on the sync half that is
\* in the world now.
ProcessRequest ==
    /\ sync_pc.at = "processing"
    /\ LET b == installed[processors[sync_pc.proc]]
       IN /\ req[b] /= <<>>
          /\ rsp' = [rsp EXCEPT ![b] =
                        Append(@, RunSystem(Head(req[b])[1], Head(req[b])[2]))]
          /\ req' = [req EXCEPT ![b] = Tail(@)]
    /\ UNCHANGED <<registration, ack, markers, added_markers, installed,
                   processors, tasks, sync_pc>>
    /\ UNCHANGED <<ent, more, hist>>

\* try_exec_processor returns on an empty request channel; the next one runs.
ProcessorDone ==
    /\ sync_pc.at = "processing"
    /\ req[installed[processors[sync_pc.proc]]] = <<>>
    /\ IF sync_pc.proc = Len(processors)
       THEN /\ sync_pc' = [at |-> "idle", proc |-> 0]
            /\ added_markers' = {}
       ELSE /\ sync_pc' = [at |-> "processing", proc |-> sync_pc.proc + 1]
            /\ UNCHANGED added_markers
    /\ UNCHANGED <<registration, ack, markers, installed, processors, req,
                   rsp, tasks>>
    /\ UNCHANGED <<ent, more, hist>>

NextBridge ==
    \/ \E t \in Tasks, sys \in Systems, x \in Inputs : ExecSyncStart(t, sys, x)
    \/ \E t \in Tasks : ExecSyncSendRequest(t)
    \/ \E t \in Tasks : ExecSyncRecvResponse(t)
    \/ ExecuteProcessorsBegin
    \/ RunRegistration
    \/ RegistrationsDone
    \/ ProcessRequest
    \/ ProcessorDone

SpecBridge == Init /\ [][NextBridge]_vars

\* C19: async bridge handshake.  A request enters a bridge's request channel
\* only from a call whose registration closure has run and acknowledged with
\* that bridge, when the pair's marker is added, its processor pushed and the
\* bridge's sync half in the world; and a closure still waiting in the
\* registration channel belongs to a call that has not sent.
C19_RequestAfterHandshake ==
    [][/\ \A b \in Bridges :
            Len(req'[b]) > Len(req[b]) =>
                /\ b[1] \in markers
                /\ \E n \in DOMAIN processors : processors[n] = b[1]
                /\ installed[b[1]] = b
                /\ \E t \in Tasks :
                      /\ tasks[t].pc = "await_ack" /\ tasks'[t].pc = "await_rsp"
                      /\ ack[t] = <<tasks[t].sys, b>>
                      /\ PairOf(tasks[t].sys) = b[1]
                      /\ \A n \in DOMAIN registration : registration[n] /= t
                      /\ req'[b] = Append(req[b], <<tasks[t].sys, tasks[t].input>>)
       /\ \A n \in DOMAIN registration' :
            tasks'[registration'[n]].pc = "await_ack"]_vars

\* Two calls of one type pair have both sent their requests; the bridge was
\* installed by the first closure and found by the second.
C19_Witness ==
    \E b \in Bridges :
        /\ Len(req[b]) = 2
        /\ b[1] \in markers
        /\ processors = <<b[1]>>
        /\ installed[b[1]] = b
        /\ \A t \in Tasks : tasks[t].pc = "await_rsp"

\* C20: every exec_sync call returns the output of its own system run on its
\* own input.
C20_OwnResult ==
    \A t \in Tasks :
        tasks[t].pc = "done" =>
            tasks[t].result = RunSystem(tasks[t].sys, tasks[t].input)

\* Handle values that own the entity token of e, the intent token of k.
EntityOwners(e) == {h \in HandleSet(handles) : h.entity = e /\ HoldsEntityToken(h)}
IntentOwners(k) == {h \in HandleSet(handles) : KeyOf(h) = k /\ HoldsIntentToken(h)}

\* C26: token sharing.  All handle values that own an entity token for one
\* entity own the same token, which is the one the weak table records, and
\* its strong count is the number of those handle values; likewise for the
\* intent token of an (entity, intent) pair; and no token serves two keys.
C26_TokenSharing ==
    /\ \A h, g \in HandleSet(handles) :
          /\ (HoldsEntityToken(h) /\ HoldsEntityToken(g))
                => (h.entity = g.entity <=> h.etok = g.etok)
          /\ (HoldsIntentToken(h) /\ HoldsIntentToken(g))
                => (KeyOf(h) = KeyOf(g) <=> h.itok = g.itok)
    /\ \A h \in HandleSet(handles) :
          /\ HoldsEntityToken(h) =>
                /\ h.entity \in DOMAIN entity_handles
                /\ entity_handles[h.entity] = h.etok
                /\ EntityStrong(h.etok) = SumCopies(EntityOwners(h.entity), handles)
          /\ HoldsIntentToken(h) =>
                /\ KeyOf(h) \in DOMAIN intent_handles
                /\ intent_handles[KeyOf(h)] = h.itok
                /\ IntentStrong(h.itok) = SumCopies(IntentOwners(KeyOf(h)), handles)

\* Two live handle values of one entity under different intents share its
\* entity token; the entity is in storage with both markers.
C26_Witness ==
    /\ commands = <<>>
    /\ \E h, g \in HandleSet(handles) :
          /\ h.phase = "live" /\ g.phase = "live"
          /\ h.entity = g.entity /\ h.intent /= g.intent
          /\ h.etok = g.etok /\ EntityStrong(h.etok) = 2
          /\ h.entity \in DOMAIN world
          /\ {h.intent_component, g.intent_component} \subseteq world[h.entity]

\* C27: reacquire under a different intent.  When a cycle starts with the
\* drop event of (e, A) pending, its weak entry recorded and no handle for
\* (e, A) left, while a handle for (e, B), B /= A, taken before the cycle is
\* held until the flush and A is not claimed again, then for e in storage
\* or with its spawn queued the cycle has queued the removal of A's marker
\* and no despawn of e, and after the flush e is alive with B's marker and
\* without A's.
C27_ReacquireOtherIntent ==
    [][CycleFlush =>
        \A k \in snap.dropped_intents \cap snap.recorded_intents :
            \A c \in IntentComponents \ {k[2]} :
                (/\ HeldSinceBegin(<<k[1], c>>)
                 /\ k \notin DOMAIN intent_handles
                 /\ Exists(k[1]))
                    => /\ HasCmd("remove", k[1], {k[2]})
                       /\ ~HasCmd("despawn", k[1], {})
                       /\ k[1] \in DOMAIN world'
                       /\ c \in world'[k[1]]
                       /\ k[2] \notin world'[k[1]]]_vars

\* A cycle is about to flush: e, created by spawn under A, is in storage with
\* A's marker and without B's; A's handle was dropped and to_managed<B>(e)
\* issued a fresh entity token and intent token before the cycle began.
C27_Witness ==
    /\ pc = "flush_wait"
    /\ \E k \in snap.dropped_intents \cap snap.recorded_intents :
          /\ k \notin DOMAIN intent_handles
          /\ k[1] \in DOMAIN world
          /\ {TestComp, k[2]} \subseteq world[k[1]]
          /\ HasCmd("remove", k[1], {k[2]})
          /\ \E h \in HandleSet(handles) :
                /\ h.phase = "live" /\ h.entity = k[1]
                /\ h.intent_component /= k[2]
                /\ h.intent_component \notin world[k[1]]
                /\ h.itok < snap.tokens /\ h.itok = h.etok + 1 /\ h.etok > 2

\* The step that ends execute: the second loop found its channel empty.
ReconcileEnd == pc \in {"first", "second"} /\ pc' = "flush_wait"

\* Each weak table has an entry for a key exactly when a live token for the
\* key exists.
WeakTablesExact ==
    /\ \A e \in DOMAIN entity_handles : EntityUpgrades(e)
    /\ \A k \in DOMAIN intent_handles : IntentUpgrades(k[1], k[2])
    /\ \A h \in HandleSet(handles) :
          /\ HoldsEntityToken(h) => h.entity \in DOMAIN entity_handles
          /\ HoldsIntentToken(h) => KeyOf(h) \in DOMAIN intent_handles

\* An entry is erased only by execute, only when its token is dead.
ErasesOnlyDead ==
    /\ \A e \in DOMAIN entity_handles :
          e \notin DOMAIN entity_handles'
              => pc \in {"first", "second"} /\ ~EntityUpgrades(e)
    /\ \A k \in DOMAIN intent_handles :
          k \notin DOMAIN intent_handles'
              => pc \in {"first", "second"} /\ ~IntentUpgrades(k[1], k[2])
    /\ pc \in {"first", "second"} =>
          /\ \A e \in DOMAIN entity_handles :
                EntityUpgrades(e) =>
                    /\ e \in DOMAIN entity_handles'
                    /\ entity_handles'[e] = entity_handles[e]
          /\ \A k \in DOMAIN intent_handles :
                IntentUpgrades(k[1], k[2]) =>
                    /\ k \in DOMAIN intent_handles'
                    /\ intent_handles'[k] = intent_handles[k]

\* After every reconcile that starts with no handle drop in progress both
\* weak tables are exact, and entries are erased only when dead.
C28_HygieneAfterSettledStart ==
    [][/\ (ReconcileEnd /\ begun_settled) => WeakTablesExact
       /\ ErasesOnlyDead]_vars

\* C28: weak-table hygiene.  After every reconcile that starts with no handle
\* drop in progress and ends with none in progress and no drop event
\* pending, both weak tables are exact; in every step an entry is erased only
\* by the reconciler and only when its token is dead, and the reconciler
\* leaves an entry whose token upgrades as it is.
C28_WeakTableHygiene ==
    [][/\ (/\ ReconcileEnd /\ begun_settled
           /\ \A h \in HandleSet(handles) : h.phase = "live"
           /\ drop_intent_q = <<>> /\ drop_entity_q = <<>>)
            => WeakTablesExact
       /\ ErasesOnlyDead]_vars

\* A reconcile has ended that erased the entries of a dropped handle and
\* kept those of a held one.
C28_Witness ==
    /\ pc = "flush_wait" /\ begun_settled
    /\ drop_intent_q = <<>> /\ drop_entity_q = <<>>
    /\ snap.dropped_entities /= {}
    /\ snap.dropped_entities \cap DOMAIN entity_handles = {}
    /\ snap.dropped_intents \cap DOMAIN intent_handles = {}
    /\ \E h \in HandleSet(handles) : h.etok < snap.tokens
    /\ \A h \in HandleSet(handles) : h.phase = "live"
    /\ WeakTablesExact

\* ------------------------------------------------------------- dyn_node
\* The key of HandleRegistry: (h_config.id(), query, TypeId::of::<A>()).
ResolveKey(cfg, q, ty) == <<cfg, q, ty>>

\* self.handle_providers.get(&type_id) is Some; .expect panics on None.
ProviderAdded(ty) == ty \in DynAssets

\* DynNodeResolver::resolve::<A>(h_config, query).  A key found in the
\* registry returns the recorded handle; otherwise the provider of A reserves
\* a handle and the extraction is queued with on_loaded_with.  No statement
\* of resolve, nor of the crate, writes the registry.
Resolve(cfg, q, ty) ==
    /\ dyn_pc = "running"
    /\ Len(resolved) < MaxResolves
    /\ LET key == ResolveKey(cfg, q, ty)
       IN IF key \in DOMAIN handle_registry
          THEN /\ resolved' = Append(resolved,
                                [key |-> key, handle |-> handle_registry[key]])
               /\ UNCHANGED <<next_handle, extractions>>
          ELSE /\ ProviderAdded(ty)
               /\ next_handle' = [next_handle EXCEPT ![ty] = @ + 1]
               /\ extractions' = Append(extractions,
                                [config |-> cfg, path |-> q, type |-> ty,
                                 out |-> <<ty, next_handle[ty]>>])
               /\ resolved' = Append(resolved,
                                [key |-> key, handle |-> <<ty, next_handle[ty]>>])
    /\ UNCHANGED <<handle_registry, dyn_pc>>
    /\ UNCHANGED <<ent, svc, reg, qry, trf, hist>>

\* resolve for an asset type that was not given to init_dyn_asset.
ResolvePanic(cfg, q, ty) ==
    /\ dyn_pc = "running"
    /\ Len(resolved) < MaxResolves
    /\ ResolveKey(cfg, q, ty) \notin DOMAIN handle_registry
    /\ ~ProviderAdded(ty)
    /\ dyn_pc' = "panicked"
    /\ UNCHANGED <<handle_registry, next_handle, extractions, resolved>>
    /\ UNCHANGED <<ent, svc, reg, qry, trf, hist>>

NextDyn ==
    \/ \E cfg \in Configs, q \in Paths, ty \in AssetTypes : Resolve(cfg, q, ty)
    \/ \E cfg \in Configs, q \in Paths, ty \in AssetTypes : ResolvePanic(cfg, q, ty)

SpecDyn == Init /\ [][NextDyn]_vars

\* The extractions queued for a key.
ExtractionsFor(key) ==
    {n \in DOMAIN extractions :
        ResolveKey(extractions[n].config, extractions[n].path,
                   extractions[n].type) = key}

\* C21: resolve is a cache.  Any two resolve calls with the same (config
\* handle id, query path, asset type) returned the same handle, and at most
\* one extraction has been queued for that key.
C21_ResolveCaches ==
    /\ \A i, j \in DOMAIN resolved :
          resolved[i].key = resolved[j].key
              => resolved[i].handle = resolved[j].handle
    /\ \A i \in DOMAIN resolved :
          Cardinality(ExtractionsFor(resolved[i].key)) <= 1

\* ------------------------------------------------------------- registry
\* An entity of the registry substrate: its key component T (or none) and
\* whether it has the component the query's data D asks for.
KeyEntity(k, dat) == [key |-> k, data |-> dat]
Calls == {"get", "get_mut"}

TryInsertFails_Never(k) == FALSE

\* registry.0.try_insert(component.clone(), entity).is_err(): the key is
\* occupied; try_insert leaves an occupied entry as it is.
TryInsertFails(k) == k \in DOMAIN key_registry

\* Registry::on_component_inserted, run by the substrate after T = k has been
\* put on entity e (added or replaced).
OnComponentInserted(e, k) ==
    IF TryInsertFails(k)
    THEN /\ key_pc' = "panicked"
         /\ UNCHANGED key_registry
    ELSE /\ key_registry' = Put(key_registry, k, e)
         /\ UNCHANGED key_pc

\* Registry::on_component_removed, run by the substrate before T is taken
\* off entity e: the entry of e's component value is removed.
OnComponentRemoved(e) == Erase(key_registry, key_world[e].key)

\* World::spawn((T(k), ..)) or spawn without T.
KeySpawn(k, dat) ==
    /\ key_pc = "running"
    /\ key_next <= MaxKeyEntities
    /\ key_world' = Put(key_world, key_next, KeyEntity(k, dat))
    /\ key_next' = key_next + 1
    /\ IF k = NoKey THEN UNCHANGED <<key_registry, key_pc>>
                    ELSE OnComponentInserted(key_next, k)
    /\ UNCHANGED key_result
    /\ UNCHANGED <<ent, svc, dyn, qry, trf, hist>>

\* entity_mut(e).insert(T(k)): adds T or replaces its value.  A replacement
\* triggers Insert, not Remove.
KeyInsert(e, k) ==
    /\ key_pc = "running"
    /\ e \in DOMAIN key_world
    /\ key_world' = [key_world EXCEPT ![e].key = k]
    /\ OnComponentInserted(e, k)
    /\ UNCHANGED <<key_next, key_result>>
    /\ UNCHANGED <<ent, svc, dyn, qry, trf, hist>>

\* entity_mut(e).remove::<T>()
KeyRemove(e) ==
    /\ key_pc = "running"
    /\ e \in DOMAIN key_world
    /\ key_world[e].key /= NoKey
    /\ key_registry' = OnComponentRemoved(e)
    /\ key_world' = [key_world EXCEPT ![e].key = NoKey]
    /\ UNCHANGED <<key_next, key_pc, key_result>>
    /\ UNCHANGED <<ent, svc, dyn, qry, trf, hist>>

\* despawn(e): Remove is triggered for each component of e.
KeyDespawn(e) ==
    /\ key_pc = "running"
    /\ e \in DOMAIN key_world
    /\ key_registry' = IF key_world[e].key = NoKey THEN key_registry
                                                   ELSE OnComponentRemoved(e)
    /\ key_world' = Erase(key_world, e)
    /\ UNCHANGED <<key_next, key_pc, key_result>>
    /\ UNCHANGED <<ent, svc, dyn, qry, trf, hist>>

\* The component D reads is put on e or taken off it.
SetData(e, dat) ==
    /\ key_pc = "running"
    /\ e \in DOMAIN key_world
    /\ key_world[e].data /= dat
    /\ key_world' = [key_world EXCEPT ![e].data = dat]
    /\ UNCHANGED <<key_registry, key_next, key_pc, key_result>>
    /\ UNCHANGED <<ent, svc, dyn, qry, trf, hist>>

\* Registry::get: Some(entity) as <<entity>>, None as <<>>.
RegistryGet(k) == IF k \in DOMAIN key_registry THEN <<key_registry[k]>> ELSE <<>>

QueryGet_Unchecked(e) == "Ok"

\* Query<D, (With<T>, F)>::get(entity) / get_mut(entity)
QueryGet(e) ==
    IF e \notin DOMAIN key_world THEN "EntityDoesNotExist"
    ELSE IF key_world[e].key = NoKey \/ ~key_world[e].data
         THEN "QueryDoesNotMatch"
         ELSE "Ok"

\* RegistryQuery::get(key) and RegistryQuery::get_mut(key)
RegistryQueryGet(call, k) ==
    /\ key_pc = "running"
    /\ LET found == RegistryGet(k)
       IN key_result' =
            IF found = <<>>
            THEN [call |-> call, key |-> k, outcome |-> "NoSuchEntity"]
            ELSE IF QueryGet(found[1]) = "Ok"
                 THEN [call |-> call, key |-> k, outcome |-> "Ok"]
                 ELSE [call |-> call, key |-> k,
                       outcome |-> "QueryEntityError_" \o QueryGet(found[1])]
    /\ UNCHANGED <<key_world, key_registry, key_next, key_pc>>
    /\ UNCHANGED <<ent, svc, dyn, qry, trf, hist>>

NextRegistry ==
    \/ \E k \in Keys \cup {NoKey}, dat \in BOOLEAN : KeySpawn(k, dat)
    \/ \E e \in 1..MaxKeyEntities, k \in Keys : KeyInsert(e, k)
    \/ \E e \in 1..MaxKeyEntities : KeyRemove(e)
    \/ \E e \in 1..MaxKeyEntities : KeyDespawn(e)
    \/ \E e \in 1..MaxKeyEntities, dat \in BOOLEAN : SetData(e, dat)
    \/ \E call \in Calls, k \in Keys : RegistryQueryGet(call, k)

SpecRegistry == Init /\ [][NextRegistry]_vars

\* The registered entity of k does not satisfy the query.
Mismatched(k) ==
    \/ key_registry[k] \notin DOMAIN key_world
    \/ key_world[key_registry[k]].key = NoKey
    \/ ~key_world[key_registry[k]].data

\* C22: RegistryQuery::get and get_mut never panic on a miss.  Every call
\* leaves the application running; for a key absent from the registry it
\* returns NoSuchEntity, and for a key whose registered entity lacks the
\* query's components or no longer exists it returns the wrapped query error.
C22_MissIsAnError ==
    [][key_result' /= key_result =>
        /\ key_pc' = "running"
        /\ key_result'.key \notin DOMAIN key_registry
              => key_result'.outcome = "NoSuchEntity"
        /\ (key_result'.key \in DOMAIN key_registry /\ Mismatched(key_result'.key))
              => key_result'.outcome \in {"QueryEntityError_EntityDoesNotExist",
                                          "QueryEntityError_QueryDoesNotMatch"}]_vars

\* get_mut was called with a key whose registered entity no longer exists,
\* and returned the query error.
C22_Witness ==
    /\ key_pc = "running"
    /\ key_result.call = "get_mut"
    /\ key_result.key \in DOMAIN key_registry
    /\ key_registry[key_result.key] \notin DOMAIN key_world
    /\ key_result.outcome = "QueryEntityError_EntityDoesNotExist"

\* The step puts key k on entity e.
KeyPutOn(e, k) ==
    /\ e \in DOMAIN key_world' /\ key_world'[e].key = k
    /\ e \in DOMAIN key_world => key_world[e].key /= k

\* C23: duplicate registration collision.  Whenever key k is put on an entity
\* while the registry maps k to a different entity, the insertion panics and
\* the registry, the mapping of k with it, is left as it was.
C23_DuplicatePanics ==
    [][\A e \in 1..MaxKeyEntities, k \in Keys :
          (/\ KeyPutOn(e, k)
           /\ k \in DOMAIN key_registry /\ key_registry[k] /= e)
              => /\ key_pc' = "panicked"
                 /\ key_registry' = key_registry]_vars

\* The application panicked with two entities carrying key k, the registry
\* still mapping k to the first.
C23_Witness ==
    /\ key_pc = "panicked"
    /\ \E k \in Keys, e1, e2 \in DOMAIN key_world :
          /\ e1 < e2
          /\ key_world[e1].key = k /\ key_world[e2].key = k
          /\ k \in DOMAIN key_registry /\ key_registry[k] = e1

\* ------------------------------------------------------ EntityAssetQuery
\* Data D is the Value component; filter F is none or With<IntentMarker<I>>.
QueryFilters == {NoFilter} \cup {MarkerOf(i) : i \in Intents}
NewValues == {1, 2}

Visits_AnyEntity(e, f) ==
    /\ e \in DOMAIN world /\ e \in DOMAIN values
    /\ f = NoFilter \/ f \in world[e]

\* Query<D, (With<IdMarker<Id>>, F)> matches entity e.
Visits(e, f) ==
    /\ e \in DOMAIN world /\ e \in DOMAIN values
    /\ IdMarker \in world[e]
    /\ f = NoFilter \/ f \in world[e]

Read(by, f, S) == [by |-> by, filter |-> f, items |-> {<<e, values[e]>> : e \in S}]
Written(by, f, S) ==
    [by |-> by, filter |-> f, items |-> {<<e, values[e] + 1>> : e \in S}]

\* world_mut().entity_mut(e).insert(Value(v))
InsertValue(e, v) ==
    /\ pc = "idle"
    /\ e \in DOMAIN world
    /\ values' = Put(values, e, v)
    /\ UNCHANGED seen
    /\ UNCHANGED <<ent, svc, reg, dyn, trf, hist>>

\* world().get::<Value>(e)
WorldGet(e) ==
    /\ pc = "idle"
    /\ seen' = Read("world", NoFilter,
                     {e} \cap DOMAIN world \cap DOMAIN values)
    /\ UNCHANGED values
    /\ UNCHANGED <<ent, svc, reg, dyn, trf, hist>>

\* EntityAssetQuery::iter
QueryIter(f) ==
    /\ pc = "idle"
    /\ seen' = Read("iter", f, {e \in DOMAIN world : Visits(e, f)})
    /\ UNCHANGED values
    /\ UNCHANGED <<ent, svc, reg, dyn, trf, hist>>

\* EntityAssetQuery::iter_mut, the caller adding one to every item
QueryIterMut(f) ==
    /\ pc = "idle"
    /\ LET S == {e \in DOMAIN world : Visits(e, f)}
       IN /\ \A e \in S : values[e] < MaxValue
          /\ values' = [e \in DOMAIN values |->
                            IF e \in S THEN values[e] + 1 ELSE values[e]]
          /\ seen' = Written("iter_mut", f, S)
    /\ UNCHANGED <<ent, svc, reg, dyn, trf, hist>>

\* EntityAssetQuery::get(&handle): self.query.get(**handle)
QueryGetByHandle(h, f) ==
    /\ pc = "idle"
    /\ h.id /= NoId
    /\ seen' = Read("get", f, {e \in {h.entity} : Visits(e, f)})
    /\ UNCHANGED values
    /\ UNCHANGED <<ent, svc, reg, dyn, trf, hist>>

\* EntityAssetQuery::get_mut(&handle), the caller adding one to the item
QueryGetMutByHandle(h, f) ==
    /\ pc = "idle"
    /\ h.id /= NoId
    /\ LET S == {e \in {h.entity} : Visits(e, f)}
       IN /\ \A e \in S : values[e] < MaxValue
          /\ values' = [e \in DOMAIN values |->
                            IF e \in S THEN values[e] + 1 ELSE values[e]]
          /\ seen' = Written("get_mut", f, S)
    /\ UNCHANGED <<ent, svc, reg, dyn, trf, hist>>

\* Asset entities and plain managed entities, their components, the query.
NextQuery ==
    \/ \E k \in Ids, i \in Intents : GetAsset(k, i)
    \/ \E i \in Intents : Spawn(i)
    \/ Flush
    \/ \E e \in EntityIds, v \in NewValues : InsertValue(e, v)
    \/ \E e \in EntityIds : WorldGet(e)
    \/ \E f \in QueryFilters : QueryIter(f)
    \/ \E f \in QueryFilters : QueryIterMut(f)
    \/ \E h \in HandleSet(handles), f \in QueryFilters : QueryGetByHandle(h, f)
    \/ \E h \in HandleSet(handles), f \in QueryFilters : QueryGetMutByHandle(h, f)

SpecQuery == Init /\ [][NextQuery]_vars

\* The entities in storage that carry the identity marker, the data
\* component and what the filter asks for.
AssetEntitiesMatching(f) ==
    {e \in DOMAIN world :
        /\ IdMarker \in world[e]
        /\ e \in DOMAIN values
        /\ f /= NoFilter => f \in world[e]}

\* C24: the typed query.  iter and iter_mut visit exactly the entities that
\* carry the identity marker and match data and filter; what iter_mut or
\* get_mut wrote is what storage holds afterwards and nothing else changed;
\* and every read, by the query or straight from storage, returns what
\* storage holds.
C24_QueryVisitsAssets ==
    [][seen' /= seen =>
        /\ seen'.by \in {"iter", "iter_mut"} =>
              {it[1] : it \in seen'.items} = AssetEntitiesMatching(seen'.filter)
        /\ seen'.by \in {"get", "get_mut"} =>
              {it[1] : it \in seen'.items} \subseteq AssetEntitiesMatching(seen'.filter)
        /\ seen'.by \in {"iter_mut", "get_mut"} =>
              /\ \A it \in seen'.items :
                    values'[it[1]] = it[2] /\ it[2] = values[it[1]] + 1
              /\ \A e \in DOMAIN values :
                    e \notin {it[1] : it \in seen'.items} => values'[e] = values[e]
        /\ seen'.by \in {"iter", "get", "world"} =>
              /\ values' = values
              /\ \A it \in seen'.items : it[2] = values[it[1]]]_vars

\* A read straight from storage returned, for an asset entity, a value that
\* only a mutation through the query can have produced, and storage still
\* holds it; a managed entity without the identity marker has a value too.
C24_Witness ==
    /\ seen.by = "world"
    /\ \E it \in seen.items :
          /\ IdMarker \in world[it[1]]
          /\ it[2] = MaxValue /\ values[it[1]] = MaxValue
    /\ \E e \in DOMAIN values : IdMarker \notin world[e]

\* C25: an exec_sync call whose registration the sync stage has not processed
\* has not returned.  As long as the registration closure of a call is in the
\* registration channel, the call is suspended on its ack channel, without a
\* result, whatever else has happened; nothing but the sync stage takes the
\* closure out of the channel.
C25_SuspendedUntilRegistered ==
    [][\A t \in Tasks :
          /\ t \in Range(registration') =>
                /\ tasks'[t].pc = "await_ack"
                /\ tasks'[t].result = NoResult
                /\ ack'[t] = <<>>
          /\ (t \in Range(registration) /\ t \notin Range(registration'))
                => sync_pc.at = "registering"]_vars

\* One call has returned, the sync stage is idle again, and a later call is
\* suspended with its registration still in the channel.
C25_Witness ==
    /\ sync_pc.at = "idle"
    /\ \E t, u \in Tasks :
          /\ tasks[u].pc = "done"
          /\ t \in Range(registration)
          /\ tasks[t].pc = "await_ack"

\* C30: the bridge of a type pair is created by the first registration only.
\* The channel ends stored in the world for a pair are never replaced once
\* installed, and the processor list holds at most one processor per pair.
C30_BridgeCreatedOnce ==
    [][\A p \in Pairs :
          /\ installed[p] /= NoBridge => installed'[p] = installed[p]
          /\ Cardinality({n \in DOMAIN processors' : processors'[n] = p}) <= 1]_vars

\* ------------------------------------------------------ eventual cleanup
\* Every (entity, marker) pair a handle can stand for.
AllKeys == EntityIds \X {MarkerOf(i) : i \in Intents}

\* A destructor that has started runs to its end, for the handles of every
\* pair; execute, once started, takes every event it finds; each loop ends
\* when it finds its channel empty, which the schedule running execute and
\* the flush again and again presupposes.
DropContinues(k) ==
    /\ WF_vars(\E h \in HandleSet(handles) : KeyOf(h) = k /\ SendDropEntityEvent(h))
    /\ WF_vars(\E h \in HandleSet(handles) : KeyOf(h) = k /\ ReleaseIntentToken(h))
    /\ WF_vars(\E h \in HandleSet(handles) : KeyOf(h) = k /\ SendDropIntentEvent(h))

CyclesRepeat ==
    /\ WF_vars(ExecuteBeginUnobserved)
    /\ WF_vars(ExecuteIntentStep)
    /\ SF_vars(ExecuteIntentsDone)
    /\ WF_vars(ExecuteEntityStep)
    /\ SF_vars(ExecuteEntitiesDone)
    /\ WF_vars(Flush)

\* EntityServer with one client: it spawns one entity under IntentA, claims
\* it under IntentB as often as it likes, and drops what it holds at any
\* moment relative to the reconciler.
NextCleanup ==
    \/ next_entity = 1 /\ Spawn("IntentA")
    \/ \E e \in KnownEntities : ToManaged(e, "IntentB")
    \/ ExecuteBeginUnobserved
    \/ \E h \in HandleSet(handles) : ReleaseEntityToken(h)
    \/ \E h \in HandleSet(handles) : SendDropEntityEvent(h)
    \/ \E h \in HandleSet(handles) : ReleaseIntentToken(h)
    \/ \E h \in HandleSet(handles) : SendDropIntentEvent(h)
    \/ ExecuteIntentStep
    \/ ExecuteIntentsDone
    \/ ExecuteEntityStep
    \/ ExecuteEntitiesDone
    \/ Flush

SpecCleanup ==
    /\ Init /\ [][NextCleanup]_vars
    /\ CyclesRepeat
    /\ \A k \in AllKeys : DropContinues(k)

\* Every handle of e, every handle of the pair k, has been dropped or is
\* being dropped.
Unheld(e) ==
    /\ e < next_entity
    /\ \A h \in HandleSet(handles) : h.entity = e => h.phase /= "live"
PairUnheld(k) ==
    /\ k[1] < next_entity
    /\ \A h \in HandleSet(handles) : KeyOf(h) = k => h.phase /= "live"

\* e is neither in storage nor about to be; the marker of k likewise.
Gone(e) == e \notin DOMAIN world /\ e \notin DOMAIN ApplyAll(world, commands)
MarkerGone(k) ==
    /\ k[1] \in DOMAIN world => k[2] \notin world[k[1]]
    /\ LET w == ApplyAll(world, commands)
       IN k[1] \in DOMAIN w => k[2] \notin w[k[1]]

\* C29: eventual cleanup.  Whenever all handles of a managed entity e are
\* dropped, at any moment relative to the reconciler, then e is eventually
\* despawned for good unless a handle for e is acquired again; and whenever
\* all handles of a pair are dropped, its marker is eventually removed
\* unless the pair is acquired again.
C29_EventualCleanup ==
    /\ \A e \in EntityIds : Unheld(e) ~> (Gone(e) \/ ~Unheld(e))
    /\ \A k \in AllKeys : PairUnheld(k) ~> (MarkerGone(k) \/ ~PairUnheld(k))

\* A reconcile is between its two loops while the last handle of an entity
\* in storage is part-way through its drop.
C29_Witness ==
    /\ pc = "second"
    /\ \E e \in DOMAIN world :
          /\ Unheld(e)
          /\ \E h \in HandleSet(handles) :
                h.entity = e /\ h.phase = "entity_sending"

\* ------------------------------------------- async_service: calls return
\* Cycles keep running: execute_processors is in Update, each of its loops
\* takes what it finds and ends on an empty channel; a task that can go on
\* does go on.
CyclesKeepRunning ==
    /\ WF_vars(ExecuteProcessorsBegin)
    /\ WF_vars(RunRegistration)
    /\ SF_vars(RegistrationsDone)
    /\ WF_vars(ProcessRequest)
    /\ SF_vars(ProcessorDone)
    /\ \A t \in Tasks : /\ WF_vars(ExecSyncSendRequest(t))
                        /\ WF_vars(ExecSyncRecvResponse(t))

SpecBridgeFair == SpecBridge /\ CyclesKeepRunning

\* A turn of a processor's loop takes the oldest pending request of the
\* bridge it serves and sends the one output of that request's system.
C31_InOrderOnce ==
    [][\A b \in Bridges :
          (sync_pc.at = "processing" /\ req'[b] /= req[b]
           /\ Len(req'[b]) <= Len(req[b]))
          => /\ req[b] /= <<>>
             /\ req'[b] = Tail(req[b])
             /\ rsp'[b] = Append(rsp[b],
                   RunSystem(Head(req[b])[1], Head(req[b])[2]))]_vars

\* A call that has sent its registration returns: it is past its last await
\* with an output.
C31_EveryCallReturns ==
    \A t \in Tasks : (tasks[t].pc = "await_ack") ~> (tasks[t].pc = "done")

\* C31: every request pending on a bridge's request channel when the sync
\* stage runs is executed in that stage exactly once, in channel order, with
\* exactly one response; and as long as cycles keep running every exec_sync
\* call whose registration was sent eventually returns.
C31_RequestsProcessed ==
    /\ C31_InOrderOnce
    /\ C31_EveryCallReturns

\* --------------------------------- asset_transformer and on_asset_loaded
\* The user system of a request type, run on (params, asset).
UserSystem(ty, p, a) == <<ty, p, a>>

\* Systems that make requests and the command flush run in the schedule,
\* never inside the exclusive PostUpdate system of a plugin.
StageIdle == stage = NoStage

\* TransformRequest::new / ProcessRequest::new (params: Some(params))
NewRequest(n, ty, h, p, out) ==
    [id |-> n, type |-> ty, handle_in |-> h, handle_out |-> out, params |-> p]

\* HandleTransformer::transform_with_params: reserves the output handle,
\* queues the request with a clone of it and returns it.
TransformWithParams(ty, h, p) ==
    /\ StageIdle
    /\ PluginOf(ty) = "transformer"
    /\ next_request <= MaxRequests
    /\ LET output == next_request
       IN /\ request_queue' = Append(request_queue,
                                 NewRequest(next_request, ty, h, p, output))
          /\ returned' = Put(returned, next_request, output)
    /\ runs' = Put(runs, next_request, 0)
    /\ next_request' = next_request + 1
    /\ UNCHANGED <<assets_in, requests, executors, assets_out, stage>>
    /\ UNCHANGED <<ent, svc, reg, dyn, qry, hist>>

\* Commands::on_loaded_with: queues the request; there is no output.
OnLoadedWith(ty, h, p) ==
    /\ StageIdle
    /\ PluginOf(ty) = "on_loaded"
    /\ next_request <= MaxRequests
    /\ request_queue' = Append(request_queue,
                           NewRequest(next_request, ty, h, p, NoHandle))
    /\ runs' = Put(runs, next_request, 0)
    /\ next_request' = next_request + 1
    /\ UNCHANGED <<assets_in, requests, executors, assets_out, returned,
                   stage>>
    /\ UNCHANGED <<ent, svc, reg, dyn, qry, hist>>

\* Command::apply for a request, with the flush that follows every command:
\* the request entity is spawned and the executor of its type is in the set.
ApplyRequest ==
    /\ StageIdle
    /\ request_queue /= <<>>
    /\ LET r == Head(request_queue)
       IN /\ requests' = Put(requests, r.id, r)
          /\ executors' = [executors EXCEPT ![PluginOf(r.type)] = @ \cup {r.type}]
    /\ request_queue' = Tail(request_queue)
    /\ UNCHANGED <<assets_in, assets_out, next_request, returned, runs, stage>>
    /\ UNCHANGED <<ent, svc, reg, dyn, qry, hist>>

\* The asset server finishes loading an input asset.
AssetLoaded(h) ==
    /\ StageIdle
    /\ h \notin assets_in
    /\ assets_in' = assets_in \cup {h}
    /\ UNCHANGED <<request_queue, requests, executors, assets_out,
                   next_request, returned, runs, stage>>
    /\ UNCHANGED <<ent, svc, reg, dyn, qry, hist>>

\* run_transformer_systems / run_on_asset_loaded_processors: resource_scope
\* takes the set and retain visits each of its executors once.
RunSystemsBegin(p) ==
    /\ StageIdle
    /\ stage' = [plugin |-> p, todo |-> executors[p]]
    /\ UNCHANGED <<assets_in, request_queue, requests, executors, assets_out,
                   next_request, returned, runs>>
    /\ UNCHANGED <<ent, svc, reg, dyn, qry, hist>>

\* execute, pass 1: whether any request of the type exists, and the requests
\* that still have their params and whose input asset is available.
HasAny(ty) == \E r \in DOMAIN requests : requests[r].type = ty
Ready(ty) ==
    {r \in DOMAIN requests :
        /\ requests[r].type = ty
        /\ requests[r].params /= NoParams
        /\ requests[r].handle_in \in assets_in}

ShouldRunAgain_Always(ty) == TRUE

\* What execute returns to retain.
ShouldRunAgain(ty) == HasAny(ty)

StoreKey_Other(r) == (requests[r].handle_out % MaxRequests) + 1

\* out_id: req.handle_out.id()
StoreKey(r) == requests[r].handle_out

\* execute, pass 2, for a set of ready requests of a transformer: the
\* outputs of the user system are inserted into Assets<T>.
Stored(done) ==
    [k \in DOMAIN assets_out \cup {StoreKey(r) : r \in done} |->
        IF \E r \in done : StoreKey(r) = k
        THEN LET r == CHOOSE x \in done : StoreKey(x) = k
             IN UserSystem(requests[r].type, requests[r].params,
                           requests[r].handle_in)
        ELSE assets_out[k]]

\* One executor run by retain: execute for a concrete request type and the
\* keeping or dropping of the executor on what it returns.
Execute(ty) ==
    /\ stage.plugin = PluginOf(ty)
    /\ ty \in stage.todo
    /\ stage' = [stage EXCEPT !.todo = @ \ {ty}]
    /\ executors' = IF ShouldRunAgain(ty) THEN executors
                    ELSE [executors EXCEPT ![PluginOf(ty)] = @ \ {ty}]
    /\ LET done == Ready(ty)
       IN /\ runs' = [r \in DOMAIN runs |->
                        IF r \in done THEN runs[r] + 1 ELSE runs[r]]
          /\ assets_out' = IF PluginOf(ty) = "transformer"
                           THEN Stored(done) ELSE assets_out
          /\ requests' = [r \in DOMAIN requests \ done |-> requests[r]]
    /\ UNCHANGED <<assets_in, request_queue, next_request, returned>>
    /\ UNCHANGED <<ent, svc, reg, dyn, qry, hist>>

\* retain has visited every executor; resource_scope puts the set back.
RunSystemsEnd ==
    /\ stage /= NoStage
    /\ stage.todo = {}
    /\ stage' = NoStage
    /\ UNCHANGED <<assets_in, request_queue, requests, executors, assets_out,
                   next_request, returned, runs>>
    /\ UNCHANGED <<ent, svc, reg, dyn, qry, hist>>

\* HandleTransformer::transform and Commands::on_loaded
Transform(ty, h) == TransformWithParams(ty, h, Unit)
OnLoaded(ty, h) == OnLoadedWith(ty, h, Unit)

NextTransform ==
    \/ \E ty \in RequestTypes, h \in InputHandles, p \in Params :
          TransformWithParams(ty, h, p)
    \/ \E ty \in RequestTypes, h \in InputHandles, p \in Params :
          OnLoadedWith(ty, h, p)
    \/ ApplyRequest
    \/ \E h \in InputHandles : AssetLoaded(h)
    \/ \E p \in Plugins : RunSystemsBegin(p)
    \/ \E ty \in RequestTypes : Execute(ty)
    \/ RunSystemsEnd

SpecTransform == Init /\ [][NextTransform]_vars

\* The plugins with a client that calls transform and on_loaded; the command
\* flush and both PostUpdate systems run in every update, and an executor
\* that retain has reached runs.
NextExecutors ==
    \/ \E ty \in RequestTypes, h \in InputHandles : Transform(ty, h)
    \/ \E ty \in RequestTypes, h \in InputHandles : OnLoaded(ty, h)
    \/ ApplyRequest
    \/ \E h \in InputHandles : AssetLoaded(h)
    \/ \E p \in Plugins : RunSystemsBegin(p)
    \/ \E ty \in RequestTypes : Execute(ty)
    \/ RunSystemsEnd

UpdatesRepeat ==
    /\ SF_vars(ApplyRequest)
    /\ \A p \in Plugins : SF_vars(RunSystemsBegin(p))
    /\ \A ty \in RequestTypes : WF_vars(Execute(ty))
    /\ WF_vars(RunSystemsEnd)

SpecExecutors == Init /\ [][NextExecutors]_vars /\ UpdatesRepeat

\* The requests the user system runs for in this step.
RanNow == {r \in DOMAIN runs : runs'[r] > runs[r]}

\* C32: for every transform / on_loaded request the user system runs at most
\* once, only in a cycle in which the request's input asset is available; on
\* that run the output is stored under exactly the handle that transform
\* returned when the request was made (and nothing else in Assets<T> is
\* touched), and the request entity is despawned, so that it is never
\* processed again.
C32_RequestRunsOnce ==
    [][/\ \A r \in RanNow :
             /\ runs[r] = 0
             /\ stage.plugin = PluginOf(requests[r].type)
             /\ r \in DOMAIN requests
             /\ requests[r].handle_in \in assets_in
             /\ r \notin DOMAIN requests'
             /\ PluginOf(requests[r].type) = "transformer" =>
                   /\ returned[r] \in DOMAIN assets_out'
                   /\ assets_out'[returned[r]] =
                         UserSystem(requests[r].type, requests[r].params,
                                    requests[r].handle_in)
       /\ \A k \in DOMAIN assets_out' :
             \/ \E r \in RanNow : r \in DOMAIN returned /\ returned[r] = k
             \/ k \in DOMAIN assets_out /\ assets_out'[k] = assets_out[k]
       /\ \A r \in DOMAIN runs' :
             /\ runs'[r] <= 1
             /\ runs'[r] = 1 => r \notin DOMAIN requests']_vars

\* A transformer's output is stored under the handle its request returned
\* while a request made before it still waits for its input asset.
C32_Witness ==
    \E r \in DOMAIN returned, q \in DOMAIN requests :
        /\ q < r
        /\ runs[r] = 1
        /\ returned[r] \in DOMAIN assets_out
        /\ runs[q] = 0
        /\ requests[q].handle_in \notin assets_in

\* Every request made and not yet processed, applied or not.
AllRequests == Range(request_queue) \cup {requests[r] : r \in DOMAIN requests}

\* Request n has been made and its input asset is available.
Waiting(n) == \E q \in AllRequests : q.id = n /\ q.handle_in \in assets_in
Processed(n) == n \in DOMAIN runs /\ runs[n] = 1

\* retain runs the executor of ty in this step.
RetainRuns(ty) == ty \in stage.todo /\ ty \notin stage'.todo

\* The set of executors follows the pending requests: an executor is in
\* its plugin's set while a request of its type exists; it leaves the set
\* only when it runs and finds none, and then it does leave; the step that
\* spawns a request has the executor in the set.
C33_ExecutorFollowsRequests ==
    [][\A ty \in RequestTypes :
          LET p == PluginOf(ty)
          IN /\ HasAny(ty) => ty \in executors[p]
             /\ (ty \in executors[p] /\ ty \notin executors'[p])
                   => RetainRuns(ty) /\ ~HasAny(ty)
             /\ (RetainRuns(ty) /\ ~HasAny(ty)) => ty \notin executors'[p]
             /\ (\E r \in DOMAIN requests' \ DOMAIN requests :
                    requests'[r].type = ty) => ty \in executors'[p]]_vars

C34_RegistryConsistent ==
    key_pc = "running" =>
        \A k \in Keys, e \in 1..MaxKeyEntities :
            (k \in DOMAIN key_registry /\ key_registry[k] = e)
            <=> (e \in DOMAIN key_world /\ key_world[e].key = k)
====
